---- MODULE Spec2Model ----
(***************************************************************************)
(* Model of the talktome_mcp voice session manager.                        *)
(*                                                                         *)
(*   CallManager        server/talktome_mcp/call_manager.py                *)
(*   LocalPhoneProvider server/talktome_mcp/providers/phone_local.py       *)
(*   WhisperSTTProvider server/talktome_mcp/providers/stt_whisper.py       *)
(*   PiperTTSProvider   server/talktome_mcp/providers/tts_piper.py         *)
(*   split_into_sentences server/talktome_mcp/utils.py                     *)
(*                                                                         *)
(* Execution contexts: the asyncio event loop (the callers' coroutines,    *)
(* the ingestion tasks and the puts scheduled by the capture callback),    *)
(* the sounddevice capture thread and one playback thread per call.  A     *)
(* coroutine is split into steps at the awaits that can suspend it: the    *)
(* speech providers (synthesis subprocess, recognizer I/O) and the waits   *)
(* on the capture queue and on the listen event.  The methods of           *)
(* LocalPhoneProvider never suspend, so they run inside the step that      *)
(* calls them; hang_up blocks the event loop thread in Thread.join.        *)
(*                                                                         *)
(* SegmenterSpec and ChunkerSpec drive WhisperSTTProvider and              *)
(* PiperTTSProvider.synthesize_stream through their own methods, without   *)
(* the manager, and log the chunks fed, the recognizer and synthesis       *)
(* calls and the clearings of the buffer in events.                        *)
(*                                                                         *)
(* LoopSpec and PlaybackSpec add weak fairness of the steps of the event   *)
(* loop and of the playback thread; RaceSpec, OverlapSpec and              *)
(* ListenersSpec run two requests at a time (initiates, speaks, listens);  *)
(* ToolSpec calls the manager through the server's tools initiate_call,    *)
(* continue_call and report_completion (server/talktome_mcp/server.py).    *)
(***************************************************************************)
EXTENDS Integers, Sequences, FiniteSets, TLC

\* ---------------------------------------------------------------- bounds
MaxCalls == 2        \* audio sessions opened in one run
MaxBlocks == 2       \* blocks the microphone delivers in one run
MaxOps == 2          \* operations the agent issues in one run
MaxClock == 1        \* readings of the wall clock are 0..MaxClock
MaxText == 5         \* characters of a text given to synthesize_stream
MaxChunks == 12      \* blocks of audio fed to the Segmenter on its own

\* ------------------------------------------------------ program constants
sample_rate == 16000                 \* stt_whisper.py:64
BlockMs == 100                       \* phone_local.py:47 (100 ms blocks)
BlockSamples == (sample_rate * BlockMs) \div 1000
SessionSilenceMs == 100              \* config['silence_duration_ms'] used by Spec
DefaultSilenceMs == 800              \* stt_whisper.py:32, the default
MinSpeechMs == 250                   \* elevenlabs.py:154, the default

None == 0                            \* Python None for a call id
NoText == <<>>                       \* Python None / "" for a text
Terminators == {".", "!", "?"}
Blank == " "

VARIABLES
    \* CallManager
    active_call_id, call_active, call_transcript, processing_audio,
    pending_transcription, transcription_event,
    \* LocalPhoneProvider and its LocalCall objects
    calls, call_counter, call,
    \* WhisperSTTProvider
    streaming, audio_buffer, silence_samples, silence_threshold,
    \* coroutines and threads
    callers, workload, pc, frame, ret, signalled, task, worker,
    \* environment and history
    now, delivered, dropped, recognized, events, opsDone, lifecycle

cmVars == <<active_call_id, call_active, call_transcript, processing_audio,
            pending_transcription, transcription_event>>
phoneVars == <<calls, call_counter, call>>
sttVars == <<streaming, audio_buffer, silence_samples, silence_threshold>>
procVars == <<callers, workload, pc, frame, ret, signalled, task, worker>>
envVars == <<now, delivered, dropped, recognized, events, opsDone,
            lifecycle>>
vars == <<cmVars, phoneVars, sttVars, procVars, envVars>>

CallIds == 1..MaxCalls

\* ------------------------------------------------------------- utilities
RECURSIVE TakeWhile(_, _)
TakeWhile(s, S) ==
    IF s = <<>> \/ Head(s) \notin S THEN <<>>
    ELSE <<Head(s)>> \o TakeWhile(Tail(s), S)

Drop(s, n) == SubSeq(s, n + 1, Len(s))

\* str.strip(): leading and trailing whitespace removed
RECURSIVE LStrip(_)
LStrip(s) == IF s # <<>> /\ Head(s) = Blank THEN LStrip(Tail(s)) ELSE s

RECURSIVE RStrip(_)
RStrip(s) ==
    IF s # <<>> /\ s[Len(s)] = Blank THEN RStrip(SubSeq(s, 1, Len(s) - 1)) ELSE s

Strip(s) == RStrip(LStrip(s))

\* re.findall(r"[^.!?]+[.!?]+|[^.!?]+$", text): leftmost matches, scanning
\* on after each one; a position where neither alternative matches is skipped.
RECURSIVE FindAll(_)
FindAll(s) ==
    IF s = <<>> THEN <<>>
    ELSE LET Chars == {s[i] : i \in 1..Len(s)}
             body == TakeWhile(s, Chars \ Terminators)
             rest == Drop(s, Len(body))
             term == TakeWhile(rest, Terminators)
         IN  IF body = <<>> THEN FindAll(Tail(s))
             ELSE IF term # <<>>
                  THEN <<body \o term>> \o FindAll(Drop(rest, Len(term)))
                  ELSE <<body>>

RECURSIVE DropEmpty(_)
DropEmpty(ss) ==
    IF ss = <<>> THEN <<>>
    ELSE IF Strip(Head(ss)) = <<>> THEN DropEmpty(Tail(ss))
         ELSE <<Strip(Head(ss))>> \o DropEmpty(Tail(ss))

split_keeps_whitespace(text) == FindAll(text)

split_into_sentences(text) == DropEmpty(FindAll(text))

StreamUnitsPerSentence(text) == 1..Len(split_into_sentences(text))

\* synthesize_stream: the synthesis calls it makes for a text, 0 for the one
\* call with the whole text, i for the call with the i-th sentence
StreamUnits(text) ==
    IF Len(split_into_sentences(text)) <= 1 THEN {0}
    ELSE 1..Len(split_into_sentences(text))

\* the text a synthesis call is made with
UnitText(text, unit) ==
    IF unit = 0 THEN text ELSE split_into_sentences(text)[unit]

\* the texts the agent speaks in Spec: one sentence, two sentences
SpeakTexts == { <<"a">>, <<"a", ".", "b">> }

\* the text the recognizer returns for the n-th buffer it is given
Utterance(n) == <<"u" \o ToString(n)>>

Entry(role, text, ts) == [role |-> role, text |-> text, timestamp |-> ts]

insert_first(list, item) == <<item>> \o list

\* list.append as the manager uses it on call_transcript
append(list, item) == Append(list, item)

\* history: a speak call or a text the Segmenter handed to the manager
Event(role, text) == [role |-> role, text |-> text]

\* what happens in one run: how many operations the agent issues, how many
\* blocks the microphone delivers, the kinds of operation issued freely and
\* how many more of each of the other kinds
Workload(ops, blocks, kinds, left) ==
    [ops |-> ops, blocks |-> blocks, kinds |-> kinds, left |-> left]

\* a duration as _calculate_duration prints it, f"{minutes}:{seconds:02d}",
\* or the string "unknown"
Duration(minutes, seconds) ==
    [known |-> TRUE, minutes |-> minutes, seconds |-> seconds]
Unknown == [known |-> FALSE, minutes |-> 0, seconds |-> 0]

calculate_duration_unknown_if_empty(transcript) ==
    IF transcript = <<>> THEN Unknown
    ELSE LET first_time == transcript[1].timestamp
             last_time == transcript[Len(transcript)].timestamp
             duration == last_time - first_time
         IN  Duration(duration \div 60, duration % 60)

\* _calculate_duration: clock readings are whole seconds
calculate_duration(transcript) ==
    IF transcript = <<>> THEN Duration(0, 0)
    ELSE LET first_time == transcript[1].timestamp
             last_time == transcript[Len(transcript)].timestamp
             duration == last_time - first_time
         IN  Duration(duration \div 60, duration % 60)

\* datetime.now(): a reading not before the previous one, within the bound
ClockReadings == {t \in now..(now + 1) : t <= MaxClock}

\* after: what the caller runs when the current operation returns; tool:
\* the server tool that called the manager; again: a cleanup right after a
\* cleanup
NoFrame == [op |-> 0, text |-> NoText, sentences |-> <<>>, todo |-> {},
            cid |-> None, heard |-> 0,
            final |-> NoText, after |-> "none", tool |-> "none",
            again |-> FALSE]
NoRet == [op |-> "none", ok |-> TRUE, err |-> "", text |-> NoText, id |-> None,
          mark |-> 0, raised |-> FALSE, active |-> FALSE, transcript |-> <<>>,
          duration |-> Unknown]
\* a result; mark records how many utterances had been recognized by then
Ret(op, ok, err, text, id) ==
    [NoRet EXCEPT !.op = op, !.ok = ok, !.err = err, !.text = text,
                  !.id = id, !.mark = recognized]
Returned(op, err) == Ret(op, FALSE, err, NoText, None)

\* an exception that leaves the operation
Raise(op, err) == [Ret(op, FALSE, err, NoText, None) EXCEPT !.raised = TRUE]

NoCall == [active |-> FALSE, recording |-> FALSE, stream |-> FALSE,
           scheduled |-> <<>>, audio_queue |-> <<>>, playback_queue |-> <<>>]
NoTask == [pc |-> "none", call_id |-> None, chunk |-> <<>>]
NoWorker == [pc |-> "none", chunk |-> <<>>]

\* an audio chunk of the speak that appended transcript entry number speak;
\* unit 0 is the whole text, unit i the i-th sentence
Chunk(speak, unit) == [speak |-> speak, unit |-> unit]
Sentinel == Chunk(0, 0)      \* the None that stops the playback worker

\* the event loop thread is blocked while a hang_up waits in Thread.join, and
\* busy between the return of end_call and the hang_up of cleanup
EventLoopFree ==
    \A c \in callers : pc[c] \notin {"end_join", "cleanup_phone", "cleanup_join"}

\* ------------------------------------------------------------------ Init
InitCommon ==
    /\ active_call_id = None
    /\ call_active = FALSE
    /\ call_transcript = <<>>
    /\ processing_audio = FALSE
    /\ pending_transcription = NoText
    /\ transcription_event = FALSE
    /\ calls = {}
    /\ call_counter = 0
    /\ call = [i \in CallIds |-> NoCall]
    /\ streaming = FALSE
    /\ audio_buffer = <<>>
    /\ silence_samples = 0
    /\ pc = [c \in callers |-> "idle"]
    /\ frame = [c \in callers |-> NoFrame]
    /\ ret = [c \in callers |-> NoRet]
    /\ signalled = {}
    /\ task = [i \in CallIds |-> NoTask]
    /\ worker = [i \in CallIds |-> NoWorker]
    /\ now = 0
    /\ delivered = 0
    /\ dropped = 0
    /\ recognized = 0
    /\ events = <<>>
    /\ opsDone = 0
    /\ lifecycle = "none"

Init ==
    /\ callers = {1}
    /\ workload = Workload(MaxOps, MaxBlocks,
                           {"initiate", "speak", "listen", "end"}, <<>>)
    /\ silence_threshold = (SessionSilenceMs * sample_rate) \div 1000
    /\ InitCommon

\* ------------------------------------------------- LocalPhoneProvider
\* LocalCall.pause_recording / resume_recording through the provider
SetRecording(cl, id, on) ==
    IF id \in calls THEN [cl EXCEPT ![id].recording = on] ELSE cl

\* LocalCall.play_audio through LocalPhoneProvider.send_audio
SendAudio(cl, id, chunk) ==
    IF id \in calls
    THEN [cl EXCEPT ![id].playback_queue = Append(@, chunk)]
    ELSE cl

\* PhoneProvider.wait_for_playback_complete: the default implementation,
\* which LocalPhoneProvider inherits, returns at once
WaitForPlaybackComplete(cl, id) == cl

\* LocalCall.end up to the join: stop_recording, active = False, sentinel
CallEnd(cl, id) ==
    [cl EXCEPT ![id].recording = FALSE,
               ![id].stream = FALSE,
               ![id].active = FALSE,
               ![id].playback_queue =
                   IF worker[id].pc = "none" THEN @ ELSE Append(@, Sentinel)]

\* the capture callback of LocalCall.start_recording, on the audio thread
CallbackQueuesAlways(id) == TRUE

CallbackQueues(id) == call[id].recording

MicCallback(id) ==
    /\ call[id].stream
    /\ delivered < workload.blocks
    /\ \E loud \in BOOLEAN :
         LET block == [n |-> delivered + 1, loud |-> loud,
                       live |-> call[id].recording, samples |-> BlockSamples]
         IN  call' = IF CallbackQueues(id)
                     THEN [call EXCEPT ![id].scheduled = Append(@, block)]
                     ELSE call
    /\ delivered' = delivered + 1
    /\ dropped' = IF CallbackQueues(id) THEN dropped ELSE dropped + 1
    /\ UNCHANGED <<cmVars, calls, call_counter, sttVars, procVars,
                   now, recognized, events, opsDone, lifecycle>>

\* the audio_queue.put scheduled by run_coroutine_threadsafe runs on the loop
PutRun(id) ==
    /\ EventLoopFree
    /\ call[id].scheduled # <<>>
    /\ call' = [call EXCEPT ![id].scheduled = Tail(@),
                            ![id].audio_queue = Append(@, Head(call[id].scheduled))]
    /\ UNCHANGED <<cmVars, calls, call_counter, sttVars, procVars, envVars>>

WorkerGetNewest(id) ==
    /\ worker[id].pc = "idle"
    /\ call[id].playback_queue # <<>>
    /\ LET n == Len(call[id].playback_queue)
           item == call[id].playback_queue[n]
       IN  /\ worker' = [worker EXCEPT ![id] =
                           IF item = Sentinel THEN [pc |-> "ended", chunk |-> <<>>]
                           ELSE [pc |-> "writing", chunk |-> item]]
           /\ call' = [call EXCEPT ![id].playback_queue = SubSeq(@, 1, n - 1)]
    /\ UNCHANGED <<cmVars, calls, call_counter, sttVars, callers, workload, pc, frame,
                   ret, signalled, task, envVars>>

\* playback_worker: take the next item of the playback queue
WorkerGet(id) ==
    /\ worker[id].pc = "idle"
    /\ call[id].playback_queue # <<>>
    /\ LET item == Head(call[id].playback_queue)
       IN  worker' = [worker EXCEPT ![id] =
                        IF item = Sentinel THEN [pc |-> "ended", chunk |-> <<>>]
                        ELSE [pc |-> "writing", chunk |-> item]]
    /\ call' = [call EXCEPT ![id].playback_queue = Tail(@)]
    /\ UNCHANGED <<cmVars, calls, call_counter, sttVars, callers, workload, pc, frame,
                   ret, signalled, task, envVars>>

\* playback_worker: the while self.active test fails
WorkerExit(id) ==
    /\ worker[id].pc = "idle"
    /\ ~call[id].active
    /\ worker' = [worker EXCEPT ![id] = [pc |-> "ended", chunk |-> <<>>]]
    /\ UNCHANGED <<cmVars, phoneVars, sttVars, callers, workload, pc, frame, ret,
                   signalled, task, envVars>>

\* playback_worker: stream.write returns (or raises and is skipped)
WorkerWrite(id) ==
    /\ worker[id].pc = "writing"
    /\ worker' = [worker EXCEPT ![id] = [pc |-> "idle", chunk |-> <<>>]]
    /\ UNCHANGED <<cmVars, phoneVars, sttVars, callers, workload, pc, frame, ret,
                   signalled, task, envVars>>

\* ------------------------------------------------- WhisperSTTProvider
\* what the external recognizer does with one buffer
RecognizerOutcomes == {"text", "empty", "blank", "raise"}

\* WhisperSTTProvider.process_audio_chunk on chunk with recognizer outcome o:
\* the new buffer, the new silence count and the value returned
\* (NoText for None, "raise" when transcribe raised)
SilenceNeverReset(chunk) == silence_samples + chunk.samples

SilenceAfter(chunk) ==
    IF chunk.loud THEN 0 ELSE silence_samples + chunk.samples

RECURSIVE BufferBytes(_)
BufferBytes(buf) ==
    IF buf = <<>> THEN 0 ELSE 2 * Head(buf).samples + BufferBytes(Tail(buf))

FlushDue(chunk) ==
    /\ SilenceAfter(chunk) >= silence_threshold
    /\ BufferBytes(audio_buffer \o <<chunk>>) > 0

\* A chunk of no bytes leaves the buffer as it is and makes the detector
\* raise: np.max of an empty array (line 144), or the VAD model refusing an
\* empty tensor (line 134).
ProcessAudioChunk(chunk, o) ==
    IF ~streaming
    THEN [buffer |-> audio_buffer, silence |-> silence_samples,
          raised |-> FALSE, text |-> NoText]
    ELSE IF chunk.samples = 0
    THEN [buffer |-> audio_buffer, silence |-> silence_samples,
          raised |-> TRUE, text |-> NoText]
    ELSE IF ~FlushDue(chunk)
    THEN [buffer |-> audio_buffer \o <<chunk>>, silence |-> SilenceAfter(chunk),
          raised |-> FALSE, text |-> NoText]
    ELSE IF o = "raise"
    THEN [buffer |-> audio_buffer \o <<chunk>>, silence |-> SilenceAfter(chunk),
          raised |-> TRUE, text |-> NoText]
    ELSE [buffer |-> <<>>, silence |-> 0, raised |-> FALSE,
          text |-> IF o = "text" THEN Utterance(recognized + 1) ELSE NoText]

\* does process_audio_chunk / get_final_transcription call the recognizer
CallsRecognizer(chunk) == streaming /\ chunk.samples > 0 /\ FlushDue(chunk)

TranscribedBufferBeforeChunk(chunk) == audio_buffer

\* line 154: the buffer process_audio_chunk hands to the recognizer
TranscribedBuffer(chunk) == audio_buffer \o <<chunk>>

\* ---------------------------------------------------------- CallManager
Idle(c) ==
    /\ c \in callers
    /\ pc[c] = "idle"
    /\ EventLoopFree
    /\ opsDone < workload.ops

\* an operation of this kind is part of the run
Issue(kind) ==
    \/ /\ kind \in workload.kinds
       /\ UNCHANGED workload
    \/ /\ kind \in DOMAIN workload.left
       /\ workload.left[kind] > 0
       /\ workload' = [workload EXCEPT !.left[kind] = @ - 1]

Return(c, r) ==
    /\ pc' = [pc EXCEPT ![c] = "idle"]
    /\ ret' = [ret EXCEPT ![c] = r]

\* initiate_call, lines 65-77: the check and make_call
InitiateGuardNever == FALSE

InitiateGuard == active_call_id # None

InitiateCall(c) ==
    /\ Idle(c)
    /\ Issue("initiate")
    /\ opsDone' = opsDone + 1
    /\ IF InitiateGuard
       THEN /\ Return(c, Ret("initiate", FALSE, "AlreadyActive", NoText, active_call_id))
            /\ UNCHANGED <<cmVars, phoneVars, frame, worker, events>>
       ELSE /\ call_counter < MaxCalls
            /\ LET id == call_counter + 1
                   \* make_call first hangs up every call left in self.calls
                   swept == [i \in CallIds |->
                               IF i \in calls THEN CallEnd(call, i)[i] ELSE call[i]]
               IN  /\ call_counter' = id
                   /\ calls' = {id}
                   /\ \E opened \in BOOLEAN :
                        IF opened
                        THEN /\ call' = [swept EXCEPT ![id] =
                                           [NoCall EXCEPT !.active = TRUE,
                                                          !.recording = TRUE,
                                                          !.stream = TRUE]]
                             /\ worker' = [worker EXCEPT ![id].pc = "idle"]
                             /\ active_call_id' = id
                             /\ call_active' = TRUE
                             /\ call_transcript' = <<>>
                             /\ events' = <<>>
                             /\ pc' = [pc EXCEPT ![c] = "init_start"]
                             /\ frame' = [frame EXCEPT ![c] = [NoFrame EXCEPT !.cid = id]]
                             /\ UNCHANGED ret
                        ELSE \* sd.InputStream raised in start_recording
                             /\ call' = [swept EXCEPT ![id] =
                                           [NoCall EXCEPT !.active = TRUE,
                                                          !.recording = TRUE]]
                             /\ Return(c, Ret("initiate", FALSE, "DeviceError", NoText, None))
                             /\ UNCHANGED <<active_call_id, call_active,
                                            call_transcript, frame, worker,
                                            events>>
            /\ UNCHANGED <<processing_audio, pending_transcription,
                           transcription_event>>
    /\ UNCHANGED <<sttVars, callers, signalled, task, now,
                   delivered, dropped, recognized, lifecycle>>

\* initiate_call, lines 79-99: start_stream, create_task, the result
InitiateStart(c) ==
    /\ c \in callers
    /\ pc[c] = "init_start"
    /\ EventLoopFree
    /\ \E started \in BOOLEAN :
         IF started
         THEN /\ streaming' = TRUE
              /\ audio_buffer' = <<>>
              /\ silence_samples' = 0
              /\ task' = [task EXCEPT ![frame[c].cid] =
                            [pc |-> "start", call_id |-> None, chunk |-> <<>>]]
              /\ Return(c, Ret("initiate", TRUE, "", NoText, frame[c].cid))
              /\ lifecycle' = "initiated"
         ELSE /\ Return(c, Ret("initiate", FALSE, "StreamError", NoText, None))
              /\ UNCHANGED <<streaming, audio_buffer, silence_samples, task,
                             lifecycle>>
    /\ frame' = [frame EXCEPT ![c] = NoFrame]
    /\ UNCHANGED <<cmVars, phoneVars, silence_threshold, callers, workload, signalled,
                   worker, now, delivered, dropped, recognized, events, opsDone>>

\* speak, lines 117-133: the assistant entry, pause_recording, and
\* synthesize_stream as far as its first synthesis call
SpeakEnter(c, text, t, after, tool) ==
    LET sentences == split_into_sentences(text)
    IN  /\ now' = t
        /\ call_transcript' =
               append(call_transcript, Entry("assistant", text, t))
        /\ events' = Append(events, Event("assistant", text))
        /\ call' = SetRecording(call, active_call_id, FALSE)
        /\ frame' = [frame EXCEPT ![c] =
              [NoFrame EXCEPT !.op = opsDone + 1, !.text = text,
                              !.sentences = sentences,
                              !.todo = StreamUnits(text),
                              !.after = after, !.tool = tool]]
        /\ pc' = [pc EXCEPT ![c] = "speak_synth"]

\* speak, lines 111-126: the check, the assistant entry, pause_recording
SpeakCall(c) ==
    /\ Idle(c)
    /\ Issue("speak")
    /\ opsDone' = opsDone + 1
    /\ IF active_call_id = None
       THEN /\ Return(c, Ret("speak", FALSE, "NoActiveSession", NoText, None))
            /\ UNCHANGED <<call_transcript, call, frame, now, events>>
       ELSE /\ \E text \in SpeakTexts, t \in ClockReadings :
                 SpeakEnter(c, text, t, "none", "none")
            /\ UNCHANGED ret
    /\ UNCHANGED <<active_call_id, call_active, processing_audio,
                   pending_transcription, transcription_event, calls,
                   call_counter, sttVars, callers, signalled, task,
                   worker, delivered, dropped, recognized, lifecycle>>

\* speak, lines 132-158: one synthesis call of synthesize_stream completes.
\* PiperTTSProvider.synthesize_stream makes one call for the whole text when
\* there is at most one sentence (a failure reaches speak's except clause),
\* else one call per sentence, yielded as they complete (a failure is
\* skipped).  A chunk yielded is enqueued with send_audio and followed by
\* wait_for_playback_complete; when no call is left speak resumes recording.
SpeakSynth(c) ==
    /\ c \in callers
    /\ pc[c] = "speak_synth"
    /\ EventLoopFree
    /\ \E unit \in frame[c].todo, ok \in BOOLEAN :
         LET left == frame[c].todo \ {unit}
             sent == IF ok
                     THEN WaitForPlaybackComplete(
                              SendAudio(call, active_call_id,
                                        Chunk(frame[c].op, unit)),
                              active_call_id)
                     ELSE call
             failed == ~ok /\ unit = 0
         IN  IF left = {} \/ failed
             THEN /\ frame[c].after # "listen"
                  /\ call' = SetRecording(sent, active_call_id, TRUE)
                  /\ Return(c, IF failed
                               THEN Ret("speak", FALSE, "SynthesisFailure", NoText, None)
                               ELSE Ret("speak", TRUE, "", NoText, None))
                  /\ frame' = [frame EXCEPT ![c] = NoFrame]
             ELSE /\ call' = sent
                  /\ frame' = [frame EXCEPT ![c].todo = left]
                  /\ UNCHANGED <<pc, ret>>
    /\ UNCHANGED <<cmVars, calls, call_counter, sttVars, callers, workload, signalled,
                   task, worker, envVars>>

\* speak cancelled while it awaits the synthesizer: CancelledError is not an
\* Exception, so the except clause of lines 151-158 does not run
SpeakCancel(c) ==
    /\ c \in callers
    /\ pc[c] = "speak_synth"
    /\ EventLoopFree
    /\ Return(c, Ret("speak", FALSE, "Cancelled", NoText, None))
    /\ frame' = [frame EXCEPT ![c] = NoFrame]
    /\ UNCHANGED <<cmVars, phoneVars, sttVars, callers, workload, signalled, task,
                   worker, envVars>>

\* listen, lines 283-285: the event and the slot as listen leaves them
\* before it waits
ListenKeptEvent == transcription_event

ListenClearedEvent == FALSE

ListenClearedSlot == NoText

\* server.py, continue_call lines 177-191 (report_completion alike): the
\* result of speak_and_listen as the tool hands it to the agent; only
\* asyncio.TimeoutError is caught
ToolResult(tool, r) ==
    IF tool = "none" THEN r
    ELSE IF r.raised /\ r.err = "ListenTimeout"
         THEN Ret(tool, FALSE, "ListenTimeout", NoText, active_call_id)
         ELSE [r EXCEPT !.op = tool]

SpeakThenListenEarly(c) ==
    /\ c \in callers
    /\ pc[c] = "speak_synth"
    /\ EventLoopFree
    /\ frame[c].after = "listen"
    /\ transcription_event' = FALSE
    /\ pending_transcription' = NoText
    /\ signalled' = signalled \ {c}
    /\ frame' = [frame EXCEPT ![c].heard = recognized]
    /\ pc' = [pc EXCEPT ![c] = "listen_wait"]
    /\ UNCHANGED <<active_call_id, call_active, call_transcript,
                   processing_audio, phoneVars, sttVars, callers, workload,
                   ret, task, worker, envVars>>

\* speak_and_listen, lines 313-314: the last synthesis call of the speak
\* completes, speak resumes recording and returns (its result is dropped),
\* and listen runs as far as its wait (lines 277-292)
SpeakThenListen(c) ==
    /\ c \in callers
    /\ pc[c] = "speak_synth"
    /\ EventLoopFree
    /\ frame[c].after = "listen"
    /\ \E unit \in frame[c].todo, ok \in BOOLEAN :
         LET left == frame[c].todo \ {unit}
             sent == IF ok
                     THEN WaitForPlaybackComplete(
                              SendAudio(call, active_call_id,
                                        Chunk(frame[c].op, unit)),
                              active_call_id)
                     ELSE call
             failed == ~ok /\ unit = 0
         IN  /\ left = {} \/ failed
             /\ call' = SetRecording(sent, active_call_id, TRUE)
    /\ IF active_call_id = None
       THEN /\ Return(c, ToolResult(frame[c].tool,
                                     Raise("listen", "NoActiveSession")))
            /\ frame' = [frame EXCEPT ![c] = NoFrame]
            /\ UNCHANGED <<transcription_event, pending_transcription,
                           signalled>>
       ELSE /\ transcription_event' = ListenClearedEvent
            /\ pending_transcription' = ListenClearedSlot
            /\ signalled' = IF ListenClearedEvent THEN signalled \cup {c}
                             ELSE signalled \ {c}
            /\ frame' = [frame EXCEPT ![c].todo = {}, ![c].heard = recognized]
            /\ pc' = [pc EXCEPT ![c] = "listen_wait"]
            /\ UNCHANGED ret
    /\ UNCHANGED <<active_call_id, call_active, call_transcript,
                   processing_audio, calls, call_counter, sttVars, callers,
                   workload, task, worker, envVars>>

\* speak_and_listen, lines 313-314, called by the agent: speak up to its
\* first synthesis call; without a session speak returns a failure, which
\* is dropped, and listen raises
SpeakAndListenCall(c) ==
    /\ Idle(c)
    /\ Issue("speak_and_listen")
    /\ opsDone' = opsDone + 1
    /\ IF active_call_id = None
       THEN /\ Return(c, Raise("listen", "NoActiveSession"))
            /\ UNCHANGED <<call_transcript, call, frame, now, events>>
       ELSE /\ \E text \in SpeakTexts, t \in ClockReadings :
                 SpeakEnter(c, text, t, "listen", "none")
            /\ UNCHANGED ret
    /\ UNCHANGED <<active_call_id, call_active, processing_audio,
                   pending_transcription, transcription_event, calls,
                   call_counter, sttVars, callers, signalled, task,
                   worker, delivered, dropped, recognized, lifecycle>>

\* server.py, continue_call lines 165-178 (report_completion alike): without
\* a session id the tool returns a failure, else it calls speak_and_listen
ContinueCall(c) ==
    /\ Idle(c)
    /\ Issue("continue_call")
    /\ opsDone' = opsDone + 1
    /\ IF active_call_id = None
       THEN /\ Return(c, Ret("continue_call", FALSE, "NoActiveSession", NoText, None))
            /\ UNCHANGED <<call_transcript, call, frame, now, events>>
       ELSE /\ \E text \in SpeakTexts, t \in ClockReadings :
                 SpeakEnter(c, text, t, "listen", "continue_call")
            /\ UNCHANGED ret
    /\ UNCHANGED <<active_call_id, call_active, processing_audio,
                   pending_transcription, transcription_event, calls,
                   call_counter, sttVars, callers, signalled, task,
                   worker, delivered, dropped, recognized, lifecycle>>

\* listen, lines 277-292: the check, clearing the event and the slot; a wait
\* on an event that is set returns without suspending
ListenCall(c) ==
    /\ Idle(c)
    /\ Issue("listen")
    /\ opsDone' = opsDone + 1
    /\ IF active_call_id = None
       THEN /\ Return(c, Raise("listen", "NoActiveSession"))
            /\ UNCHANGED <<transcription_event, pending_transcription,
                           frame, signalled>>
       ELSE /\ transcription_event' = ListenClearedEvent
            /\ pending_transcription' = ListenClearedSlot
            /\ frame' = [frame EXCEPT ![c] =
                            [NoFrame EXCEPT !.op = opsDone + 1, !.heard = recognized]]
            /\ signalled' = IF ListenClearedEvent THEN signalled \cup {c}
                             ELSE signalled \ {c}
            /\ pc' = [pc EXCEPT ![c] = "listen_wait"]
            /\ UNCHANGED ret
    /\ UNCHANGED <<active_call_id, call_active, call_transcript,
                   processing_audio, phoneVars, sttVars, callers, task, worker,
                   now, delivered, dropped, recognized, events, lifecycle>>

\* listen, lines 297-300: the event was set, the slot is returned
ListenWake(c) ==
    /\ c \in callers
    /\ pc[c] = "listen_wait"
    /\ c \in signalled
    /\ EventLoopFree
    /\ Return(c, ToolResult(frame[c].tool,
                             Ret("listen", TRUE, "", pending_transcription, None)))
    /\ pending_transcription' = NoText
    /\ signalled' = signalled \ {c}
    /\ frame' = [frame EXCEPT ![c] = NoFrame]
    /\ UNCHANGED <<active_call_id, call_active, call_transcript,
                   processing_audio, transcription_event, phoneVars, sttVars,
                   callers, workload, task, worker, envVars>>

ListenTimeoutEndsCall(c) ==
    /\ c \in callers
    /\ pc[c] = "listen_wait"
    /\ c \notin signalled
    /\ EventLoopFree
    /\ Return(c, Raise("listen", "ListenTimeout"))
    /\ frame' = [frame EXCEPT ![c] = NoFrame]
    /\ call_active' = FALSE
    /\ UNCHANGED <<active_call_id, call_transcript, processing_audio,
                   pending_transcription, transcription_event, phoneVars,
                   sttVars, callers, workload, signalled, task, worker, envVars>>

\* listen, lines 293-295: wait_for ran out before the event was set
ListenTimeout(c) ==
    /\ c \in callers
    /\ pc[c] = "listen_wait"
    /\ c \notin signalled
    /\ EventLoopFree
    /\ Return(c, ToolResult(frame[c].tool, Raise("listen", "ListenTimeout")))
    /\ frame' = [frame EXCEPT ![c] = NoFrame]
    /\ UNCHANGED <<cmVars, phoneVars, sttVars, callers, workload, signalled, task,
                   worker, envVars>>

\* end_call returns r to the agent, or to cleanup (line 334), which drops
\* the result and goes on to the provider's cleanup, or to the tool
\* initiate_call after a listen timeout (server.py 137-142), which drops the
\* result and returns the timeout failure with the id of its session
EndReturn(c, r) ==
    /\ ret' = [ret EXCEPT ![c] =
                  IF frame[c].after = "timeout"
                  THEN Ret("initiate_call", FALSE, "ListenTimeout", NoText,
                           frame[c].cid)
                  ELSE r]
    /\ IF frame[c].after = "cleanup"
       THEN /\ pc' = [pc EXCEPT ![c] = "cleanup_phone"]
            /\ frame' = [frame EXCEPT ![c] =
                            [NoFrame EXCEPT !.after = "cleanup",
                                            !.again = frame[c].again]]
       ELSE /\ pc' = [pc EXCEPT ![c] = "idle"]
            /\ frame' = [frame EXCEPT ![c] = NoFrame]

\* end_call, lines 181-189: the check, call_active = False
EndCall(c) ==
    /\ Idle(c)
    /\ Issue("end")
    /\ opsDone' = opsDone + 1
    /\ IF active_call_id = None
       THEN /\ Return(c, Ret("end", FALSE, "NoActiveSession", NoText, None))
            /\ UNCHANGED <<call_active, frame>>
       ELSE /\ call_active' = FALSE
            /\ frame' = [frame EXCEPT ![c] = [NoFrame EXCEPT !.op = opsDone + 1]]
            /\ pc' = [pc EXCEPT ![c] = "end_flush"]
            /\ UNCHANGED ret
    /\ UNCHANGED <<active_call_id, call_transcript, processing_audio,
                   pending_transcription, transcription_event, phoneVars,
                   sttVars, callers, signalled, task, worker, now, delivered,
                   dropped, recognized, events, lifecycle>>

\* end_call, lines 191-198, with WhisperSTTProvider.get_final_transcription:
\* a non-empty buffer goes to the recognizer, a truthy result is appended
EndFlush(c) ==
    /\ c \in callers
    /\ pc[c] = "end_flush"
    /\ EventLoopFree
    /\ IF BufferBytes(audio_buffer) = 0
       THEN /\ pc' = [pc EXCEPT ![c] = "end_stop"]
            /\ UNCHANGED <<call_transcript, audio_buffer, recognized, events, now,
                           ret, frame>>
       ELSE \E o \in RecognizerOutcomes :
              IF o = "raise"
              THEN /\ EndReturn(c, Ret("end", FALSE, "RecognitionFailure", NoText, None))
                   /\ UNCHANGED <<call_transcript, audio_buffer, recognized, events, now>>
              ELSE /\ audio_buffer' = <<>>
                   /\ pc' = [pc EXCEPT ![c] = "end_stop"]
                   /\ IF o = "empty"
                      THEN UNCHANGED <<call_transcript, recognized, events, now,
                                       frame>>
                      ELSE \E t \in ClockReadings :
                             /\ now' = t
                             /\ frame' = [frame EXCEPT ![c].final =
                                   IF o = "text" THEN Utterance(recognized + 1)
                                   ELSE <<Blank>>]
                             /\ recognized' = IF o = "text" THEN recognized + 1
                                              ELSE recognized
                             /\ call_transcript' = append(call_transcript,
                                   Entry("user",
                                         IF o = "text" THEN Utterance(recognized + 1)
                                         ELSE <<Blank>>, t))
                             /\ events' = Append(events,
                                   Event("user",
                                         IF o = "text" THEN Utterance(recognized + 1)
                                         ELSE <<Blank>>))
                   /\ UNCHANGED ret
    /\ UNCHANGED <<active_call_id, call_active, processing_audio,
                   pending_transcription, transcription_event, phoneVars,
                   streaming, silence_samples, silence_threshold, callers, workload,
                   signalled, task, worker, delivered, dropped, opsDone,
                   lifecycle>>

EndSummaryAfterClear(c) ==
    /\ Return(c, [Ret("end", TRUE, "", NoText, None) EXCEPT
                     !.duration = calculate_duration(<<>>),
                     !.transcript = <<>>])
    /\ active_call_id' = None
    /\ call_transcript' = <<>>
    /\ lifecycle' = "ended"
    /\ frame' = [frame EXCEPT ![c] = NoFrame]

EndSummaryKeepsTranscript(c) ==
    /\ Return(c, [Ret("end", TRUE, "", NoText, active_call_id) EXCEPT
                     !.duration = calculate_duration(call_transcript),
                     !.transcript = call_transcript])
    /\ active_call_id' = None
    /\ call_transcript' = call_transcript
    /\ lifecycle' = "ended"
    /\ frame' = [frame EXCEPT ![c] = NoFrame]

\* end_call, lines 206-220: the summary, then the session state is cleared
EndSummary(c) ==
    /\ EndReturn(c, [Ret("end", TRUE, "", NoText, active_call_id) EXCEPT
                        !.duration = calculate_duration(call_transcript),
                        !.transcript = call_transcript])
    /\ active_call_id' = None
    /\ call_transcript' = <<>>
    /\ lifecycle' = "ended"

\* end_call, lines 200-204: stop_stream, then hang_up up to the join of the
\* playback thread (LocalCall.end); without a call to hang up, the summary
EndStop(c) ==
    /\ c \in callers
    /\ pc[c] = "end_stop"
    /\ EventLoopFree
    /\ streaming' = FALSE
    /\ IF active_call_id \in calls
       THEN /\ call' = CallEnd(call, active_call_id)
            /\ pc' = [pc EXCEPT ![c] = "end_join"]
            /\ frame' = [frame EXCEPT ![c].cid = active_call_id]
            /\ UNCHANGED <<active_call_id, call_transcript, ret, lifecycle>>
       ELSE /\ EndSummary(c)
            /\ UNCHANGED call
    /\ UNCHANGED <<call_active, processing_audio, pending_transcription,
                   transcription_event, calls, call_counter, audio_buffer,
                   silence_samples, silence_threshold, callers, workload, signalled,
                   task, worker, now, delivered, dropped, recognized, events, opsDone>>

\* hang_up after the join returned: the call is deleted, then lines 206-220
EndJoin(c) ==
    /\ c \in callers
    /\ pc[c] = "end_join"
    /\ worker[frame[c].cid].pc \in {"none", "ended"}
    /\ calls' = calls \ {frame[c].cid}
    /\ EndSummary(c)
    /\ UNCHANGED <<call_active, processing_audio, pending_transcription,
                   transcription_event, call_counter, call, sttVars, callers, workload,
                   signalled, task, worker, now, delivered, dropped, recognized, events, opsDone>>

\* cleanup, lines 333-334: with a session id, end_call as far as its first
\* await; without one, on to the provider's cleanup
CleanupCall(c) ==
    /\ Idle(c)
    /\ Issue("cleanup")
    /\ opsDone' = opsDone + 1
    /\ IF active_call_id = None
       THEN /\ pc' = [pc EXCEPT ![c] = "cleanup_phone"]
            /\ frame' = [frame EXCEPT ![c] =
                            [NoFrame EXCEPT !.after = "cleanup",
                                            !.again = (ret[c].op = "cleanup")]]
            /\ UNCHANGED call_active
       ELSE /\ call_active' = FALSE
            /\ frame' = [frame EXCEPT ![c] =
                            [NoFrame EXCEPT !.op = opsDone + 1,
                                            !.after = "cleanup",
                                            !.again = (ret[c].op = "cleanup")]]
            /\ pc' = [pc EXCEPT ![c] = "end_flush"]
    /\ UNCHANGED <<active_call_id, call_transcript, processing_audio,
                   pending_transcription, transcription_event, phoneVars,
                   sttVars, callers, ret, signalled, task, worker, now,
                   delivered, dropped, recognized, events, lifecycle>>

\* LocalPhoneProvider.cleanup, lines 191-194: hang_up of the next call left
\* in self.calls up to the join of its playback thread; with none left,
\* cleanup returns
CleanupPhone(c) ==
    /\ c \in callers
    /\ pc[c] = "cleanup_phone"
    /\ IF calls = {}
       THEN /\ Return(c, Ret("cleanup", TRUE, "", NoText, None))
            /\ frame' = [frame EXCEPT ![c] = NoFrame]
            /\ UNCHANGED call
       ELSE LET id == CHOOSE i \in calls : \A j \in calls : i <= j
            IN  /\ call' = CallEnd(call, id)
                /\ pc' = [pc EXCEPT ![c] = "cleanup_join"]
                /\ frame' = [frame EXCEPT ![c].cid = id]
                /\ UNCHANGED ret
    /\ UNCHANGED <<cmVars, calls, call_counter, sttVars, callers, workload,
                   signalled, task, worker, envVars>>

\* hang_up after the join returned: the call is deleted
CleanupJoin(c) ==
    /\ c \in callers
    /\ pc[c] = "cleanup_join"
    /\ worker[frame[c].cid].pc \in {"none", "ended"}
    /\ calls' = calls \ {frame[c].cid}
    /\ pc' = [pc EXCEPT ![c] = "cleanup_phone"]
    /\ UNCHANGED <<cmVars, call_counter, call, sttVars, callers, workload,
                   frame, ret, signalled, task, worker, envVars>>

\* get_transcript, lines 160-172
GetTranscript(c) ==
    /\ Idle(c)
    /\ Issue("get_transcript")
    /\ opsDone' = opsDone + 1
    /\ Return(c, [Ret("get_transcript", TRUE, "", NoText, active_call_id) EXCEPT
                     !.transcript = call_transcript,
                     !.active = call_active])
    /\ UNCHANGED <<cmVars, phoneVars, sttVars, callers, frame,
                   signalled, task, worker, now, delivered, dropped,
                   recognized, events, lifecycle>>

\* ------------------------------------------- _process_incoming_audio
TaskDone(k) ==
    /\ task' = [task EXCEPT ![k].pc = "done", ![k].chunk = <<>>]
    /\ processing_audio' = FALSE

\* lines 231-237: the task starts and opens get_audio_stream
TaskStart(k) ==
    /\ task[k].pc = "start"
    /\ EventLoopFree
    /\ IF active_call_id = None
       THEN /\ task' = [task EXCEPT ![k] = [NoTask EXCEPT !.pc = "done"]]
            /\ UNCHANGED processing_audio
       ELSE IF active_call_id \notin calls
       THEN TaskDone(k)
       ELSE /\ task' = [task EXCEPT ![k] =
                          [pc |-> "iter", call_id |-> active_call_id, chunk |-> <<>>]]
            /\ processing_audio' = TRUE
    /\ UNCHANGED <<active_call_id, call_active, call_transcript,
                   pending_transcription, transcription_event, phoneVars,
                   sttVars, callers, workload, pc, frame, ret, signalled, worker, envVars>>

\* get_audio_stream ends because the call is no longer active
TaskStreamEnd(k) ==
    /\ task[k].pc = "iter"
    /\ EventLoopFree
    /\ ~call[task[k].call_id].active
    /\ TaskDone(k)
    /\ UNCHANGED <<active_call_id, call_active, call_transcript,
                   pending_transcription, transcription_event, phoneVars,
                   sttVars, callers, workload, pc, frame, ret, signalled, worker, envVars>>

\* lines 237-242: get_audio_stream yields a chunk; the loop breaks when
\* call_active is false, else it awaits process_audio_chunk
TaskNext(k) ==
    /\ task[k].pc = "iter"
    /\ EventLoopFree
    /\ call[task[k].call_id].active
    /\ call[task[k].call_id].audio_queue # <<>>
    /\ call' = [call EXCEPT ![task[k].call_id].audio_queue = Tail(@)]
    /\ IF ~call_active
       THEN TaskDone(k)
       ELSE /\ task' = [task EXCEPT ![k].pc = "proc",
                                    ![k].chunk = Head(call[task[k].call_id].audio_queue)]
            /\ UNCHANGED processing_audio
    /\ UNCHANGED <<active_call_id, call_active, call_transcript,
                   pending_transcription, transcription_event, calls,
                   call_counter, sttVars, callers, workload, pc, frame, ret, signalled,
                   worker, envVars>>

\* line 255, Event.set(): every coroutine waiting on the event is woken
WaitersNone == {}

Waiters == {c \in callers : pc[c] = "listen_wait"}

\* lines 242-260: process_audio_chunk returns; a text is appended to the
\* transcript and signalled; an exception ends the task
TaskProcess(k) ==
    /\ task[k].pc = "proc"
    /\ EventLoopFree
    /\ \E o \in RecognizerOutcomes :
         LET r == ProcessAudioChunk(task[k].chunk, o)
         IN  /\ (~CallsRecognizer(task[k].chunk) => o = "empty")
             /\ audio_buffer' = r.buffer
             /\ silence_samples' = r.silence
             /\ IF r.raised
                THEN /\ TaskDone(k)
                     /\ UNCHANGED <<call_transcript, pending_transcription,
                                    transcription_event, signalled, now,
                                    recognized, events>>
                ELSE /\ task' = [task EXCEPT ![k].pc = "iter", ![k].chunk = <<>>]
                     /\ UNCHANGED processing_audio
                     /\ IF r.text = NoText
                        THEN UNCHANGED <<call_transcript, pending_transcription,
                                         transcription_event, signalled, now,
                                         recognized, events>>
                        ELSE \E t \in ClockReadings :
                               /\ now' = t
                               /\ recognized' = recognized + 1
                               /\ call_transcript' = append(call_transcript,
                                      Entry("user", r.text, t))
                               /\ events' = Append(events, Event("user", r.text))
                               /\ pending_transcription' = r.text
                               /\ transcription_event' = TRUE
                               /\ signalled' = signalled \cup Waiters
    /\ UNCHANGED <<active_call_id, call_active, phoneVars, streaming,
                   silence_threshold, callers, workload, pc, frame, ret, worker,
                   delivered, dropped, opsDone, lifecycle>>

\* ------------------------------------------------------------------ Next
Next ==
    \/ \E c \in callers : InitiateCall(c)
    \/ \E c \in callers : InitiateStart(c)
    \/ \E c \in callers : SpeakCall(c)
    \/ \E c \in callers : SpeakSynth(c)
    \/ \E c \in callers : SpeakCancel(c)
    \/ \E c \in callers : ListenCall(c)
    \/ \E c \in callers : ListenWake(c)
    \/ \E c \in callers : ListenTimeout(c)
    \/ \E c \in callers : EndCall(c)
    \/ \E c \in callers : EndFlush(c)
    \/ \E c \in callers : EndStop(c)
    \/ \E c \in callers : EndJoin(c)
    \/ \E k \in CallIds : TaskStart(k)
    \/ \E k \in CallIds : TaskStreamEnd(k)
    \/ \E k \in CallIds : TaskNext(k)
    \/ \E k \in CallIds : TaskProcess(k)
    \/ \E id \in CallIds : MicCallback(id)
    \/ \E id \in CallIds : PutRun(id)
    \/ \E id \in CallIds : WorkerGet(id)
    \/ \E id \in CallIds : WorkerExit(id)
    \/ \E id \in CallIds : WorkerWrite(id)

Spec == Init /\ [][Next]_vars

\* a run of listening turns: one more operation than Spec, no speak
ListenInit ==
    /\ callers = {1}
    /\ silence_threshold = (SessionSilenceMs * sample_rate) \div 1000
    /\ workload = Workload(MaxOps + 1, MaxBlocks,
                           {"initiate", "listen", "end"}, <<>>)
    /\ InitCommon

ListenNext ==
    \/ \E c \in callers : InitiateCall(c)
    \/ \E c \in callers : InitiateStart(c)
    \/ \E c \in callers : ListenCall(c)
    \/ \E c \in callers : ListenWake(c)
    \/ \E c \in callers : ListenTimeout(c)
    \/ \E c \in callers : EndCall(c)
    \/ \E c \in callers : EndFlush(c)
    \/ \E c \in callers : EndStop(c)
    \/ \E c \in callers : EndJoin(c)
    \/ \E k \in CallIds : TaskStart(k)
    \/ \E k \in CallIds : TaskStreamEnd(k)
    \/ \E k \in CallIds : TaskNext(k)
    \/ \E k \in CallIds : TaskProcess(k)
    \/ \E id \in CallIds : MicCallback(id)
    \/ \E id \in CallIds : PutRun(id)
    \/ \E id \in CallIds : WorkerGet(id)
    \/ \E id \in CallIds : WorkerExit(id)

\* the agent's coroutines are resumed by the event loop once they are ready
FairSpec ==
    ListenInit /\ [][ListenNext]_vars /\ \A c \in {1} : WF_vars(ListenWake(c))

\* a run of whole sessions: one more operation than Spec, no listen, one
\* block less from the microphone, fewer speaks
LifeInit ==
    /\ callers = {1}
    /\ silence_threshold = (SessionSilenceMs * sample_rate) \div 1000
    /\ workload = Workload(MaxOps + 1, MaxBlocks - 1,
                           {"initiate", "end", "get_transcript"},
                           [k \in {"speak"} |-> MaxOps - 1])
    /\ InitCommon

LifeNext ==
    \/ \E c \in callers : InitiateCall(c)
    \/ \E c \in callers : InitiateStart(c)
    \/ \E c \in callers : SpeakCall(c)
    \/ \E c \in callers : SpeakSynth(c)
    \/ \E c \in callers : SpeakCancel(c)
    \/ \E c \in callers : EndCall(c)
    \/ \E c \in callers : EndFlush(c)
    \/ \E c \in callers : EndStop(c)
    \/ \E c \in callers : EndJoin(c)
    \/ \E c \in callers : GetTranscript(c)
    \/ \E k \in CallIds : TaskStart(k)
    \/ \E k \in CallIds : TaskStreamEnd(k)
    \/ \E k \in CallIds : TaskNext(k)
    \/ \E k \in CallIds : TaskProcess(k)
    \/ \E id \in CallIds : MicCallback(id)
    \/ \E id \in CallIds : PutRun(id)
    \/ \E id \in CallIds : WorkerGet(id)
    \/ \E id \in CallIds : WorkerExit(id)
    \/ \E id \in CallIds : WorkerWrite(id)

LifeSpec == LifeInit /\ [][LifeNext]_vars

\* a run with a microphone that delivers nothing: one more operation than
\* Spec, of any kind
QuietInit ==
    /\ callers = {1}
    /\ silence_threshold = (SessionSilenceMs * sample_rate) \div 1000
    /\ workload = Workload(MaxOps + 1, 0,
                           {"initiate", "speak", "listen", "end"}, <<>>)
    /\ InitCommon

QuietNext ==
    \/ \E c \in callers : InitiateCall(c)
    \/ \E c \in callers : InitiateStart(c)
    \/ \E c \in callers : SpeakCall(c)
    \/ \E c \in callers : SpeakSynth(c)
    \/ \E c \in callers : SpeakCancel(c)
    \/ \E c \in callers : ListenCall(c)
    \/ \E c \in callers : ListenTimeout(c)
    \/ \E c \in callers : EndCall(c)
    \/ \E c \in callers : EndFlush(c)
    \/ \E c \in callers : EndStop(c)
    \/ \E c \in callers : EndJoin(c)
    \/ \E k \in CallIds : TaskStart(k)
    \/ \E k \in CallIds : TaskStreamEnd(k)
    \/ \E id \in CallIds : WorkerGet(id)
    \/ \E id \in CallIds : WorkerExit(id)
    \/ \E id \in CallIds : WorkerWrite(id)

QuietSpec == QuietInit /\ [][QuietNext]_vars

\* a run of sessions closed by cleanup
CleanupInit ==
    /\ callers = {1}
    /\ silence_threshold = (SessionSilenceMs * sample_rate) \div 1000
    /\ workload = Workload(MaxOps + 1, MaxBlocks - 1,
                           {"initiate", "cleanup"}, <<>>)
    /\ InitCommon

CleanupNext ==
    \/ \E c \in callers : InitiateCall(c)
    \/ \E c \in callers : InitiateStart(c)
    \/ \E c \in callers : CleanupCall(c)
    \/ \E c \in callers : EndFlush(c)
    \/ \E c \in callers : EndStop(c)
    \/ \E c \in callers : EndJoin(c)
    \/ \E c \in callers : CleanupPhone(c)
    \/ \E c \in callers : CleanupJoin(c)
    \/ \E k \in CallIds : TaskStart(k)
    \/ \E k \in CallIds : TaskStreamEnd(k)
    \/ \E k \in CallIds : TaskNext(k)
    \/ \E k \in CallIds : TaskProcess(k)
    \/ \E id \in CallIds : MicCallback(id)
    \/ \E id \in CallIds : PutRun(id)
    \/ \E id \in CallIds : WorkerGet(id)
    \/ \E id \in CallIds : WorkerExit(id)

CleanupSpec == CleanupInit /\ [][CleanupNext]_vars

\* a run of speak_and_listen turns
TurnInit ==
    /\ callers = {1}
    /\ silence_threshold = (SessionSilenceMs * sample_rate) \div 1000
    /\ workload = Workload(MaxOps, MaxBlocks - 1,
                           {"initiate", "speak_and_listen"}, <<>>)
    /\ InitCommon

TurnNext ==
    \/ \E c \in callers : InitiateCall(c)
    \/ \E c \in callers : InitiateStart(c)
    \/ \E c \in callers : SpeakAndListenCall(c)
    \/ \E c \in callers : SpeakSynth(c)
    \/ \E c \in callers : SpeakThenListen(c)
    \/ \E c \in callers : SpeakCancel(c)
    \/ \E c \in callers : ListenWake(c)
    \/ \E c \in callers : ListenTimeout(c)
    \/ \E k \in CallIds : TaskStart(k)
    \/ \E k \in CallIds : TaskNext(k)
    \/ \E k \in CallIds : TaskProcess(k)
    \/ \E id \in CallIds : MicCallback(id)
    \/ \E id \in CallIds : PutRun(id)
    \/ \E id \in CallIds : WorkerGet(id)
    \/ \E id \in CallIds : WorkerWrite(id)

TurnSpec == TurnInit /\ [][TurnNext]_vars

\* the server's tools called by two agents' requests at a time
ServerInit ==
    /\ callers = {1, 2}
    /\ silence_threshold = (SessionSilenceMs * sample_rate) \div 1000
    /\ workload = Workload(MaxOps + 1, MaxBlocks - 1,
                           {"initiate", "continue_call", "end"}, <<>>)
    /\ InitCommon

ServerNext ==
    \/ \E c \in callers : InitiateCall(c)
    \/ \E c \in callers : InitiateStart(c)
    \/ \E c \in callers : ContinueCall(c)
    \/ \E c \in callers : SpeakSynth(c)
    \/ \E c \in callers : SpeakThenListen(c)
    \/ \E c \in callers : SpeakCancel(c)
    \/ \E c \in callers : ListenWake(c)
    \/ \E c \in callers : ListenTimeout(c)
    \/ \E c \in callers : EndCall(c)
    \/ \E c \in callers : EndFlush(c)
    \/ \E c \in callers : EndStop(c)
    \/ \E c \in callers : EndJoin(c)
    \/ \E k \in CallIds : TaskStart(k)
    \/ \E k \in CallIds : TaskStreamEnd(k)
    \/ \E k \in CallIds : TaskNext(k)
    \/ \E k \in CallIds : TaskProcess(k)
    \/ \E id \in CallIds : MicCallback(id)
    \/ \E id \in CallIds : PutRun(id)
    \/ \E id \in CallIds : WorkerGet(id)
    \/ \E id \in CallIds : WorkerExit(id)
    \/ \E id \in CallIds : WorkerWrite(id)

ServerSpec == ServerInit /\ [][ServerNext]_vars

\* --------------------------------------- WhisperSTTProvider on its own
\* the provider driven by a consumer of its own, with the default silence
\* duration: start_stream, then chunks of one size and one other call (a
\* chunk of no bytes, a second start_stream or get_final_transcription)
ChunkDurations == {BlockMs, 3 * BlockMs}

\* the sizes of the chunks fed so far
FedSamples ==
    {events[i].text.samples :
        i \in {j \in 1..Len(events) : events[j].role = "chunk"}} \ {0}

\* start_stream, lines 101-106
StartStream(c) ==
    /\ Idle(c)
    /\ Issue(IF streaming THEN "other" ELSE "start_stream")
    /\ opsDone' = opsDone + 1
    /\ streaming' = TRUE
    /\ audio_buffer' = <<>>
    /\ silence_samples' = 0
    /\ events' = Append(events, Event("reset", <<>>))
    /\ Return(c, Ret("start_stream", TRUE, "", NoText, None))
    /\ UNCHANGED <<cmVars, phoneVars, silence_threshold, callers, frame,
                   signalled, task, worker, now, delivered, dropped,
                   recognized, lifecycle>>

\* process_audio_chunk, lines 113-164, called with chunk
Feed(c, chunk) ==
    /\ opsDone' = opsDone + 1
    /\ \E o \in RecognizerOutcomes :
         LET r == ProcessAudioChunk(chunk, o)
             fed == Append(events, Event("chunk", chunk))
             called == IF CallsRecognizer(chunk)
                       THEN Append(fed, Event("transcribe",
                                              TranscribedBuffer(chunk)))
                       ELSE fed
         IN  /\ (~CallsRecognizer(chunk) => o = "empty")
             /\ audio_buffer' = r.buffer
             /\ silence_samples' = r.silence
             /\ events' = IF CallsRecognizer(chunk) /\ ~r.raised
                          THEN Append(called, Event("reset", <<>>))
                          ELSE called
             /\ recognized' = IF r.text = NoText THEN recognized
                              ELSE recognized + 1
             /\ Return(c, IF r.raised
                          THEN Raise("process_audio_chunk",
                                     IF chunk.samples = 0 THEN "ValueError"
                                     ELSE "RecognitionFailure")
                          ELSE Ret("process_audio_chunk", TRUE, "", r.text, None))
    /\ UNCHANGED <<cmVars, phoneVars, streaming, silence_threshold, callers,
                   frame, signalled, task, worker, now, dropped, lifecycle>>

\* a chunk of audio, of the size of the chunks before it
ProcessChunk(c) ==
    /\ Idle(c)
    /\ streaming
    /\ Issue("process_audio_chunk")
    /\ \E ms \in ChunkDurations, loud \in BOOLEAN :
         LET samples == (sample_rate * ms) \div 1000
         IN  /\ FedSamples \subseteq {samples}
             /\ delivered + (ms \div BlockMs) <= workload.blocks
             /\ delivered' = delivered + (ms \div BlockMs)
             /\ Feed(c, [n |-> opsDone + 1, loud |-> loud, live |-> TRUE,
                         samples |-> samples])

\* a chunk of no bytes
ProcessEmptyChunk(c) ==
    /\ Idle(c)
    /\ streaming
    /\ Issue("other")
    /\ UNCHANGED delivered
    /\ Feed(c, [n |-> opsDone + 1, loud |-> FALSE, live |-> TRUE,
                samples |-> 0])

\* get_final_transcription, lines 166-172
FinalTranscription(c) ==
    /\ Idle(c)
    /\ Issue("other")
    /\ opsDone' = opsDone + 1
    /\ IF BufferBytes(audio_buffer) = 0
       THEN /\ Return(c, Ret("get_final_transcription", TRUE, "", NoText, None))
            /\ UNCHANGED <<audio_buffer, events, recognized>>
       ELSE \E o \in RecognizerOutcomes :
              LET called == Append(events,
                                  Event("final_transcribe", audio_buffer))
              IN  IF o = "raise"
                  THEN /\ Return(c, Raise("get_final_transcription",
                                          "RecognitionFailure"))
                       /\ events' = called
                       /\ UNCHANGED <<audio_buffer, recognized>>
                  ELSE /\ audio_buffer' = <<>>
                       /\ events' = Append(called, Event("reset", <<>>))
                       /\ recognized' = IF o = "text" THEN recognized + 1
                                        ELSE recognized
                       /\ Return(c, Ret("get_final_transcription", TRUE, "",
                                        IF o = "text" THEN Utterance(recognized + 1)
                                        ELSE IF o = "blank" THEN <<Blank>>
                                        ELSE NoText, None))
    /\ UNCHANGED <<cmVars, phoneVars, streaming, silence_samples,
                   silence_threshold, callers, frame, signalled, task, worker,
                   now, delivered, dropped, lifecycle>>

SegmenterInit ==
    /\ callers = {1}
    /\ silence_threshold = (DefaultSilenceMs * sample_rate) \div 1000
    /\ workload = Workload(MaxChunks + 2, MaxChunks, {"process_audio_chunk"},
                           [k \in {"start_stream", "other"} |-> 1])
    /\ InitCommon

SegmenterNext ==
    \/ \E c \in callers : StartStream(c)
    \/ \E c \in callers : ProcessChunk(c)
    \/ \E c \in callers : ProcessEmptyChunk(c)
    \/ \E c \in callers : FinalTranscription(c)

SegmenterSpec == SegmenterInit /\ [][SegmenterNext]_vars

\* ------------------------------- PiperTTSProvider.synthesize_stream
\* the provider driven by a consumer of its own: one stream in a run
Alphabet == {"a", ".", "?", Blank}

Example ==
    <<"H", "e", "l", "l", "o", " ", "w", "o", "r", "l", "d", ".", " ",
      "H", "o", "w", " ", "a", "r", "e", " ", "y", "o", "u", "?", " ",
      "F", "i", "n", "e">>

Texts == UNION {[1..n -> Alphabet] : n \in 0..MaxText} \cup {Example}

\* what the external synthesizer does with one text: audio, no audio (zero
\* bytes) or an exception
SynthesisOutcomes == {"audio", "empty", "raise"}

\* lines 151-160: the sentences, and the synthesis calls to make
SynthesizeStream(c) ==
    /\ Idle(c)
    /\ Issue("synthesize_stream")
    /\ opsDone' = opsDone + 1
    /\ \E text \in Texts :
         /\ frame' = [frame EXCEPT ![c] =
               [NoFrame EXCEPT !.op = opsDone + 1, !.text = text,
                               !.sentences = split_into_sentences(text),
                               !.todo = StreamUnits(text)]]
         /\ events' = Append(events, Event("stream", text))
    /\ pc' = [pc EXCEPT ![c] = "stream"]
    /\ UNCHANGED <<cmVars, phoneVars, sttVars, callers, ret, signalled, task,
                   worker, now, delivered, dropped, recognized, lifecycle>>

StreamFailsOnAnyCall(unit, o) == o = "raise"

\* lines 155 and 163-170: the call with the whole text is not guarded, a
\* call with a sentence is
StreamFails(unit, o) == o = "raise" /\ unit = 0

\* lines 153-170: one synthesis call completes, in any order
\* (asyncio.as_completed).  The audio of the whole text is yielded as it is
\* (line 156), the audio of a sentence only when it is not empty (line 166);
\* the stream ends after the last call.
StreamSynth(c) ==
    /\ c \in callers
    /\ pc[c] = "stream"
    /\ \E unit \in frame[c].todo, o \in SynthesisOutcomes :
         LET text == UnitText(frame[c].text, unit)
             left == frame[c].todo \ {unit}
             called == Append(events, Event(o, text))
             yields == IF unit = 0 THEN o # "raise" ELSE o = "audio"
         IN  /\ events' = IF yields THEN Append(called, Event("yielded", text))
                          ELSE called
             /\ IF StreamFails(unit, o)
                THEN /\ Return(c, Raise("synthesize_stream", "SynthesisFailure"))
                     /\ frame' = [frame EXCEPT ![c] = NoFrame]
                ELSE IF left = {}
                THEN /\ Return(c, Ret("synthesize_stream", TRUE, "", NoText, None))
                     /\ frame' = [frame EXCEPT ![c] = NoFrame]
                ELSE /\ frame' = [frame EXCEPT ![c].todo = left]
                     /\ UNCHANGED <<pc, ret>>
    /\ UNCHANGED <<cmVars, phoneVars, sttVars, callers, workload, signalled,
                   task, worker, now, delivered, dropped, recognized, opsDone,
                   lifecycle>>

ChunkerInit ==
    /\ callers = {1}
    /\ silence_threshold = (SessionSilenceMs * sample_rate) \div 1000
    /\ workload = Workload(1, 0, {"synthesize_stream"}, <<>>)
    /\ InitCommon

ChunkerNext ==
    \/ \E c \in callers : SynthesizeStream(c)
    \/ \E c \in callers : StreamSynth(c)

ChunkerSpec == ChunkerInit /\ [][ChunkerNext]_vars

\* ------------------------------------------- sessions one after another
\* a run of sessions without speak or listen, one more operation than Spec,
\* one block less from the microphone
LoopInit ==
    /\ callers = {1}
    /\ silence_threshold = (SessionSilenceMs * sample_rate) \div 1000
    /\ workload = Workload(MaxOps + 1, MaxBlocks - 1, {"initiate", "end"}, <<>>)
    /\ InitCommon

LoopNext ==
    \/ \E c \in callers : InitiateCall(c)
    \/ \E c \in callers : InitiateStart(c)
    \/ \E c \in callers : EndCall(c)
    \/ \E c \in callers : EndFlush(c)
    \/ \E c \in callers : EndStop(c)
    \/ \E c \in callers : EndJoin(c)
    \/ \E k \in CallIds : TaskStart(k)
    \/ \E k \in CallIds : TaskStreamEnd(k)
    \/ \E k \in CallIds : TaskNext(k)
    \/ \E k \in CallIds : TaskProcess(k)
    \/ \E id \in CallIds : MicCallback(id)
    \/ \E id \in CallIds : PutRun(id)
    \/ \E id \in CallIds : WorkerGet(id)
    \/ \E id \in CallIds : WorkerExit(id)

\* the event loop runs every coroutine and task that is ready, and the
\* playback thread runs
LoopSpec ==
    /\ LoopInit /\ [][LoopNext]_vars
    /\ \A c \in {1} : /\ WF_vars(InitiateStart(c))
                      /\ WF_vars(EndFlush(c))
                      /\ WF_vars(EndStop(c))
                      /\ WF_vars(EndJoin(c))
    /\ \A k \in 1..MaxCalls : /\ WF_vars(TaskStart(k))
                              /\ WF_vars(TaskStreamEnd(k))
                              /\ WF_vars(TaskNext(k))
                              /\ WF_vars(TaskProcess(k))
                              /\ WF_vars(PutRun(k))
                              /\ WF_vars(WorkerGet(k))
                              /\ WF_vars(WorkerExit(k))

\* ------------------------------------------------ sessions with playback
\* a run of initiate, speak and end with a microphone that delivers nothing,
\* one more operation than Spec
PlaybackInit ==
    /\ callers = {1}
    /\ silence_threshold = (SessionSilenceMs * sample_rate) \div 1000
    /\ workload = Workload(MaxOps + 1, 0, {"initiate", "speak", "end"}, <<>>)
    /\ InitCommon

PlaybackNext ==
    \/ \E c \in callers : InitiateCall(c)
    \/ \E c \in callers : InitiateStart(c)
    \/ \E c \in callers : SpeakCall(c)
    \/ \E c \in callers : SpeakSynth(c)
    \/ \E c \in callers : SpeakCancel(c)
    \/ \E c \in callers : EndCall(c)
    \/ \E c \in callers : EndFlush(c)
    \/ \E c \in callers : EndStop(c)
    \/ \E c \in callers : EndJoin(c)
    \/ \E k \in CallIds : TaskStart(k)
    \/ \E k \in CallIds : TaskStreamEnd(k)
    \/ \E id \in CallIds : WorkerGet(id)
    \/ \E id \in CallIds : WorkerExit(id)
    \/ \E id \in CallIds : WorkerWrite(id)

\* the playback thread runs (get returns or times out, write returns), and
\* Thread.join returns once the thread has ended
PlaybackSpec ==
    /\ PlaybackInit /\ [][PlaybackNext]_vars
    /\ \A c \in {1} : WF_vars(EndJoin(c))
    /\ \A id \in 1..MaxCalls : /\ WF_vars(WorkerGet(id))
                               /\ WF_vars(WorkerExit(id))
                               /\ WF_vars(WorkerWrite(id))

\* ------------------------------------------------- concurrent initiates
\* two requests at a time, every one an initiate; the playback thread has
\* nothing to play
RaceInit ==
    /\ callers = {1, 2}
    /\ silence_threshold = (SessionSilenceMs * sample_rate) \div 1000
    /\ workload = Workload(MaxOps + 1, MaxBlocks, {"initiate"}, <<>>)
    /\ InitCommon

RaceNext ==
    \/ \E c \in callers : InitiateCall(c)
    \/ \E c \in callers : InitiateStart(c)
    \/ \E k \in CallIds : TaskStart(k)
    \/ \E k \in CallIds : TaskNext(k)
    \/ \E k \in CallIds : TaskProcess(k)
    \/ \E id \in CallIds : MicCallback(id)
    \/ \E id \in CallIds : PutRun(id)

RaceSpec == RaceInit /\ [][RaceNext]_vars

\* ----------------------------------------------------- concurrent speaks
\* two requests at a time, initiate and speak, none cancelled; one more
\* operation than Spec, one block less from the microphone
OverlapInit ==
    /\ callers = {1, 2}
    /\ silence_threshold = (SessionSilenceMs * sample_rate) \div 1000
    /\ workload = Workload(MaxOps + 1, MaxBlocks - 1, {"initiate", "speak"}, <<>>)
    /\ InitCommon

OverlapNext ==
    \/ \E c \in callers : InitiateCall(c)
    \/ \E c \in callers : InitiateStart(c)
    \/ \E c \in callers : SpeakCall(c)
    \/ \E c \in callers : SpeakSynth(c)
    \/ \E k \in CallIds : TaskStart(k)
    \/ \E k \in CallIds : TaskNext(k)
    \/ \E k \in CallIds : TaskProcess(k)
    \/ \E id \in CallIds : MicCallback(id)
    \/ \E id \in CallIds : PutRun(id)
    \/ \E id \in CallIds : WorkerGet(id)
    \/ \E id \in CallIds : WorkerWrite(id)

OverlapSpec == OverlapInit /\ [][OverlapNext]_vars

\* ---------------------------------------------------- concurrent listens
\* two requests at a time, initiate and listen; one more operation than Spec
ListenersInit ==
    /\ callers = {1, 2}
    /\ silence_threshold = (SessionSilenceMs * sample_rate) \div 1000
    /\ workload = Workload(MaxOps + 1, MaxBlocks, {"initiate", "listen"}, <<>>)
    /\ InitCommon

ListenersNext ==
    \/ \E c \in callers : InitiateCall(c)
    \/ \E c \in callers : InitiateStart(c)
    \/ \E c \in callers : ListenCall(c)
    \/ \E c \in callers : ListenWake(c)
    \/ \E c \in callers : ListenTimeout(c)
    \/ \E k \in CallIds : TaskStart(k)
    \/ \E k \in CallIds : TaskNext(k)
    \/ \E k \in CallIds : TaskProcess(k)
    \/ \E id \in CallIds : MicCallback(id)
    \/ \E id \in CallIds : PutRun(id)

ListenersSpec == ListenersInit /\ [][ListenersNext]_vars

\* ------------------------------------------- the tools and their timeouts
\* server.py, initiate_call lines 123-128: after a successful initiate the
\* tool, given a message, goes on to speak_and_listen; speak runs as far as
\* its first synthesis call
InitiateMessage(c) ==
    /\ c \in callers
    /\ pc[c] = "idle"
    /\ EventLoopFree
    /\ ret[c].op = "initiate" /\ ret[c].ok
    /\ IF active_call_id = None
       THEN /\ Return(c, ToolResult("initiate_call",
                                     Raise("listen", "NoActiveSession")))
            /\ UNCHANGED <<call_transcript, call, frame, now, events>>
       ELSE /\ \E text \in SpeakTexts, t \in ClockReadings :
                 SpeakEnter(c, text, t, "listen", "initiate_call")
            /\ ret' = [ret EXCEPT ![c] = NoRet]
    /\ UNCHANGED <<active_call_id, call_active, processing_audio,
                   pending_transcription, transcription_event, calls,
                   call_counter, sttVars, callers, workload, signalled, task,
                   worker, delivered, dropped, recognized, opsDone, lifecycle>>

\* server.py, report_completion lines 248-261: without a session id the
\* tool returns a failure, else it calls speak_and_listen
ReportCompletion(c) ==
    /\ Idle(c)
    /\ Issue("report_completion")
    /\ opsDone' = opsDone + 1
    /\ IF active_call_id = None
       THEN /\ Return(c, Ret("report_completion", FALSE, "NoActiveSession",
                             NoText, None))
            /\ UNCHANGED <<call_transcript, call, frame, now, events>>
       ELSE /\ \E text \in SpeakTexts, t \in ClockReadings :
                 SpeakEnter(c, text, t, "listen", "report_completion")
            /\ UNCHANGED ret
    /\ UNCHANGED <<active_call_id, call_active, processing_audio,
                   pending_transcription, transcription_event, calls,
                   call_counter, sttVars, callers, signalled, task,
                   worker, delivered, dropped, recognized, lifecycle>>

\* the listen of a tool's speak_and_listen times out.  continue_call (lines
\* 186-191) and report_completion (lines 267-272) return the failure;
\* initiate_call (lines 136-142) first calls end_call, here as far as its
\* first await, and returns the failure when end_call has returned
ToolTimeout(c) ==
    /\ c \in callers
    /\ pc[c] = "listen_wait"
    /\ c \notin signalled
    /\ EventLoopFree
    /\ IF frame[c].tool = "initiate_call" /\ active_call_id # None
       THEN /\ call_active' = FALSE
            /\ frame' = [frame EXCEPT ![c] =
                            [NoFrame EXCEPT !.op = frame[c].op,
                                            !.after = "timeout",
                                            !.tool = "initiate_call",
                                            !.cid = active_call_id]]
            /\ pc' = [pc EXCEPT ![c] = "end_flush"]
            /\ UNCHANGED ret
       ELSE /\ Return(c, ToolResult(frame[c].tool, Raise("listen", "ListenTimeout")))
            /\ frame' = [frame EXCEPT ![c] = NoFrame]
            /\ UNCHANGED call_active
    /\ UNCHANGED <<active_call_id, call_transcript, processing_audio,
                   pending_transcription, transcription_event, phoneVars,
                   sttVars, callers, workload, signalled, task, worker, envVars>>

\* one agent calling the tools initiate_call (with or without a message),
\* continue_call and report_completion; one block less from the microphone
\* than Spec
ToolInit ==
    /\ callers = {1}
    /\ silence_threshold = (SessionSilenceMs * sample_rate) \div 1000
    /\ workload = Workload(MaxOps, MaxBlocks - 1,
                           {"initiate", "continue_call", "report_completion"},
                           <<>>)
    /\ InitCommon

ToolNext ==
    \/ \E c \in callers : InitiateCall(c)
    \/ \E c \in callers : InitiateStart(c)
    \/ \E c \in callers : InitiateMessage(c)
    \/ \E c \in callers : ContinueCall(c)
    \/ \E c \in callers : ReportCompletion(c)
    \/ \E c \in callers : SpeakSynth(c)
    \/ \E c \in callers : SpeakThenListen(c)
    \/ \E c \in callers : ListenWake(c)
    \/ \E c \in callers : ToolTimeout(c)
    \/ \E c \in callers : EndFlush(c)
    \/ \E c \in callers : EndStop(c)
    \/ \E c \in callers : EndJoin(c)
    \/ \E k \in CallIds : TaskStart(k)
    \/ \E k \in CallIds : TaskStreamEnd(k)
    \/ \E k \in CallIds : TaskNext(k)
    \/ \E k \in CallIds : TaskProcess(k)
    \/ \E id \in CallIds : MicCallback(id)
    \/ \E id \in CallIds : PutRun(id)
    \/ \E id \in CallIds : WorkerGet(id)
    \/ \E id \in CallIds : WorkerExit(id)
    \/ \E id \in CallIds : WorkerWrite(id)

ToolSpec == ToolInit /\ [][ToolNext]_vars

\* ============================================================== claims
\* the step in which caller c issues initiate
InitiateIssued(c) ==
    /\ pc[c] = "idle"
    /\ opsDone' = opsDone + 1
    /\ \/ pc'[c] = "init_start"
       \/ pc'[c] = "idle" /\ ret'[c].op = "initiate"

\* C1: between a successful initiate and the next successful end, every
\* initiate returns AlreadyActive and changes nothing of the session, the
\* audio sessions, the segmenter or the ingestion tasks.
C1_SecondInitiateRejected ==
    [][\A c \in callers :
         (lifecycle = "initiated" /\ InitiateIssued(c)) =>
            /\ pc'[c] = "idle"
            /\ ret'[c] = Ret("initiate", FALSE, "AlreadyActive", NoText, active_call_id)
            /\ UNCHANGED <<cmVars, phoneVars, sttVars, task, worker>>]_vars

C1_Witness ==
    /\ lifecycle = "initiated"
    /\ pc[1] = "idle"
    /\ ret[1].op = "initiate" /\ ret[1].err = "AlreadyActive"
    /\ ret[1].id = active_call_id
    /\ call_transcript # <<>>

\* C2: when a speak issued on an active session returns, with success, with
\* failure or cancelled, capture of the session is live.
C2_CaptureLiveWhenSpeakReturns ==
    [][\A c \in callers :
         (pc[c] = "speak_synth" /\ pc'[c] = "idle" /\ active_call_id' \in calls')
            => call'[active_call_id'].recording]_vars

\* chunks enqueued by a speak that the playback side has not finished with
SpeakChunksPending(id) ==
    \/ \E i \in 1..Len(call[id].playback_queue) :
          call[id].playback_queue[i] # Sentinel
    \/ worker[id].pc = "writing"

\* C3: capture is never live while the playback queue holds, or the playback
\* worker is writing, a chunk enqueued by a speak.
C3_NoCaptureDuringPlayback ==
    \A id \in calls : call[id].recording => ~SpeakChunksPending(id)

\* every place a captured block can be: scheduled, queued, taken by an
\* ingestion task, or in the segmenter's buffer
BlocksInFlight ==
    UNION { {call[id].scheduled[i] : i \in 1..Len(call[id].scheduled)}
            \cup {call[id].audio_queue[i] : i \in 1..Len(call[id].audio_queue)}
            \cup {task[id].chunk : j \in IF task[id].pc = "proc" THEN {1} ELSE {}}
          : id \in CallIds }
    \cup {audio_buffer[i] : i \in 1..Len(audio_buffer)}

\* C4: a block delivered by the microphone while capture was muted is never
\* scheduled, queued, taken by the ingestion task or given to the segmenter.
C4_MutedBlocksNeverReachSegmenter ==
    \A b \in BlocksInFlight : b.live

C4_Witness ==
    /\ dropped > 0
    /\ \E b \in {audio_buffer[i] : i \in 1..Len(audio_buffer)} : b.live
    /\ \E c \in callers : pc[c] = "speak_synth"

\* C5: the playback queue never holds two chunks of the same speak.
C5_OneChunkQueuedPerSpeak ==
    \A id \in CallIds :
      \A i, j \in 1..Len(call[id].playback_queue) :
         (i # j /\ call[id].playback_queue[i] # Sentinel)
            => call[id].playback_queue[i].speak # call[id].playback_queue[j].speak

C7_TimeoutCancelsOnlyListen ==
    [][\A c \in callers :
         (pc[c] = "listen_wait" /\ pc'[c] = "idle" /\ ~ret'[c].ok) =>
            /\ ret'[c].err = "ListenTimeout"
            /\ c \notin signalled
            /\ UNCHANGED <<cmVars, phoneVars, sttVars, task, worker>>]_vars

\* after a timeout the ingestion task recognized and appended an utterance
C7_Witness ==
    /\ pc[1] = "idle"
    /\ ret[1].op = "listen" /\ ret[1].err = "ListenTimeout"
    /\ recognized > ret[1].mark
    /\ call_active /\ active_call_id # None
    /\ call_transcript # <<>>
    /\ call_transcript[Len(call_transcript)].text = Utterance(recognized)

\* C8 as stated: a caller waiting in listen when an utterance is signalled
\* returns the text of that utterance.
C8_ListenerReturnsThatText ==
    [][\A c \in callers :
         (pc[c] = "listen_wait" /\ pc'[c] = "idle" /\ ret'[c].ok) =>
            ret'[c].text = Utterance(frame[c].heard + 1)]_vars

\* the step in which the ingestion task k gets a text from the segmenter
TaskGotText(k) ==
    /\ task[k].pc = "proc"
    /\ task'[k].pc = "iter"
    /\ recognized' = recognized + 1

\* C8 amended: each text the segmenter returns is appended once as a user
\* entry and signalled to every waiting listen; a listen that is waiting
\* when a text is signalled eventually returns, and returns the most recent
\* text signalled.
C8_UtteranceAppendedAndDelivered ==
    /\ [][\A k \in CallIds : TaskGotText(k) =>
            /\ call_transcript' = Append(call_transcript,
                   Entry("user", Utterance(recognized + 1), now'))
            /\ pending_transcription' = Utterance(recognized + 1)
            /\ transcription_event'
            /\ \A c \in callers : pc[c] = "listen_wait" => c \in signalled']_vars
    /\ [][\A c \in callers :
            (pc[c] = "listen_wait" /\ pc'[c] = "idle" /\ ret'[c].ok) =>
               /\ ret'[c].text = Utterance(recognized)
               /\ recognized > frame[c].heard]_vars
    /\ \A c \in {1} :
          (pc[c] = "listen_wait" /\ recognized > frame[c].heard)
             ~> (pc[c] = "idle" /\ ret[c].op = "listen" /\ ret[c].ok)

C8_Witness ==
    /\ pc[1] = "idle"
    /\ ret[1].op = "listen" /\ ret[1].ok
    /\ ret[1].text = Utterance(1)
    /\ \E i \in 1..Len(call_transcript) :
          call_transcript[i].role = "user" /\ call_transcript[i].text = ret[1].text

\* C9: an ingestion task has ended only if its session is no longer active
\* or its capture stream has ended.
C9_LoopSurvivesIterationError ==
    \A k \in CallIds :
       (task[k].pc = "done" /\ task[k].call_id # None) =>
          ~(call_active /\ active_call_id = task[k].call_id
                        /\ call[task[k].call_id].active)

\* C10: once call_active is false, the only user entry added to the
\* transcript is the one end_call appends from the final flush.
C10_NoAppendAfterDeactivation ==
    [][(/\ ~call_active
        /\ Len(call_transcript') = Len(call_transcript) + 1
        /\ call_transcript'[Len(call_transcript')].role = "user")
          => \E c \in callers : pc[c] = "end_flush" /\ pc'[c] = "end_stop"]_vars

\* the role and text of each entry of a transcript, in order
Told(transcript) ==
    [i \in 1..Len(transcript) |-> Event(transcript[i].role, transcript[i].text)]

\* the step in which an end_call of caller c returns its summary
EndSucceeds(c) ==
    /\ pc[c] \in {"end_stop", "end_join"}
    /\ pc'[c] = "idle"
    /\ ret'[c].op = "end" /\ ret'[c].ok

RECURSIVE LastUserText(_)
LastUserText(transcript) ==
    IF transcript = <<>> THEN NoText
    ELSE IF transcript[Len(transcript)].role = "user"
         THEN transcript[Len(transcript)].text
         ELSE LastUserText(SubSeq(transcript, 1, Len(transcript) - 1))

JustEnded(c) == pc[c] = "idle" /\ ret[c].op = "end" /\ ret[c].ok

Elapsed(transcript) ==
    transcript[Len(transcript)].timestamp - transcript[1].timestamp

\* C14 as stated: the summary of a successful end gives the duration
\* "unknown" when the transcript is empty, else the time between the first
\* and the last entry.
C14_EmptyTranscriptGivesUnknown ==
    [][\A c \in callers :
         EndSucceeds(c) =>
            ret'[c].duration =
               IF call_transcript = <<>> THEN Unknown
               ELSE Duration(Elapsed(call_transcript) \div 60,
                             Elapsed(call_transcript) % 60)]_vars

\* C14 amended: the summary of a successful end gives the duration "0:00"
\* when the transcript is empty, else the minutes and seconds between the
\* first and the last entry; "unknown" is never reported for a transcript
\* the manager wrote.
C14_EmptyTranscriptGivesZero ==
    [][\A c \in callers :
         EndSucceeds(c) =>
            /\ ret'[c].duration.known
            /\ ret'[c].duration =
                  IF call_transcript = <<>> THEN Duration(0, 0)
                  ELSE Duration(Elapsed(call_transcript) \div 60,
                                Elapsed(call_transcript) % 60)]_vars

\* an end of a session whose first and last entry are one second apart
C14_Witness ==
    /\ pc[1] = "idle"
    /\ ret[1].op = "end" /\ ret[1].ok
    /\ Len(ret[1].transcript) >= 2
    /\ ret[1].duration = Duration(0, 1)

\* the step in which caller c issues speak, listen or end
TurnIssued(c) ==
    /\ pc[c] = "idle"
    /\ opsDone' = opsDone + 1
    /\ \/ pc'[c] \in {"speak_synth", "listen_wait", "end_flush"}
       \/ pc'[c] = "idle" /\ ret'[c].op \in {"speak", "listen", "end"}

\* C15: with no session id, a speak or an end returns a NoActiveSession
\* failure and a listen raises NoActiveSession, in the same step and without
\* changing the manager, the audio sessions, the Segmenter, the ingestion
\* tasks, the playback workers, the listen signal or the history.
C15_NoSessionNoEffect ==
    [][\A c \in callers :
         (active_call_id = None /\ TurnIssued(c)) =>
            /\ pc'[c] = "idle"
            /\ ~ret'[c].ok /\ ret'[c].err = "NoActiveSession"
            /\ ret'[c].raised = (ret'[c].op = "listen")
            /\ UNCHANGED <<cmVars, phoneVars, sttVars, task, worker,
                           signalled, events, recognized>>]_vars

\* a listen refused after a session was ended
C15_Witness ==
    /\ lifecycle = "ended"
    /\ active_call_id = None
    /\ pc[1] = "idle"
    /\ ret[1].op = "listen" /\ ret[1].err = "NoActiveSession"

\* C16: a step that changes the transcript either appends one entry, whose
\* timestamp is not before the previous entry's, keeping the old entries in
\* place and the entries in the order of the speak and utterance events, or
\* it is the reset of an initiate or the clearing of a successful end.
C16_TranscriptAppendOnly ==
    [][\/ call_transcript' = call_transcript
       \/ /\ Len(call_transcript') = Len(call_transcript) + 1
          /\ SubSeq(call_transcript', 1, Len(call_transcript)) = call_transcript
          /\ call_transcript # <<>> =>
                call_transcript'[Len(call_transcript')].timestamp >=
                   call_transcript[Len(call_transcript)].timestamp
          /\ Told(call_transcript') = events'
       \/ /\ call_transcript' = <<>>
          /\ \E c \in callers : EndSucceeds(c) \/ InitiateIssued(c)]_vars

\* a transcript of a speak and an utterance with different timestamps
C16_Witness ==
    /\ active_call_id # None
    /\ Len(call_transcript) >= 2
    /\ call_transcript[1].role = "assistant"
    /\ call_transcript[2].role = "user"
    /\ call_transcript[1].timestamp < call_transcript[2].timestamp

\* a step of a cleanup of caller c that directly follows a cleanup
RepeatedCleanupStep(c) ==
    \/ /\ pc[c] = "idle" /\ ret[c].op = "cleanup"
       /\ frame'[c].after = "cleanup"
    \/ /\ frame[c].after = "cleanup" /\ frame[c].again
       /\ pc'[c] # pc[c]

\* C17: a cleanup returns without an error and leaves no session id, the
\* session not active and no audio session open in the provider; a cleanup
\* that directly follows a cleanup changes nothing of the manager, the
\* audio sessions or the Segmenter.
C17_CleanupIdempotent ==
    [][\A c \in callers :
         /\ (pc[c] = "cleanup_phone" /\ pc'[c] = "idle") =>
               /\ ret'[c].op = "cleanup" /\ ret'[c].ok /\ ~ret'[c].raised
               /\ active_call_id' = None
               /\ ~call_active'
               /\ calls' = {}
         /\ RepeatedCleanupStep(c) => UNCHANGED <<cmVars, phoneVars, sttVars>>]_vars

\* C18: a result with one of the lifecycle errors AlreadyActive,
\* NoActiveSession or ListenTimeout that a tool hands to the agent is a
\* structured failure, never an exception.
C18_ToolsNeverRaiseLifecycleErrors ==
    \A c \in callers :
       ret[c].err \in {"AlreadyActive", "NoActiveSession", "ListenTimeout"}
          => (~ret[c].raised /\ ~ret[c].ok)

\* the step in which the listen of a speak_and_listen of caller c times out
TurnTimesOut(c) ==
    /\ frame[c].after = "listen"
    /\ pc[c] = "listen_wait"
    /\ pc'[c] = "idle"
    /\ c \notin signalled

\* C19: speak_and_listen enters listen only in the step in which the last
\* synthesis call of its speak completes and capture is resumed, its speak
\* steps before that leave the listen signal alone, and a timeout of its
\* listen reaches the caller as the ListenTimeout exception, leaving the
\* session id set, the active flag as it was and the assistant entry for its
\* text in the transcript.
C19_SpeakThenListen ==
    [][\A c \in callers :
         /\ (frame'[c].after = "listen" /\ pc'[c] = "listen_wait"
                /\ pc[c] # "listen_wait") =>
               /\ pc[c] = "speak_synth"
               /\ Cardinality(frame[c].todo) = 1
               /\ active_call_id \in calls => call'[active_call_id].recording
         /\ (frame[c].after = "listen" /\ pc[c] = "speak_synth"
                /\ pc'[c] = "speak_synth" /\ frame'[c] # frame[c]) =>
               UNCHANGED <<transcription_event, pending_transcription, signalled>>
         /\ TurnTimesOut(c) =>
               /\ ret'[c].raised /\ ret'[c].err = "ListenTimeout"
               /\ active_call_id' # None
               /\ UNCHANGED <<active_call_id, call_active>>
               /\ \E i \in 1..Len(call_transcript') :
                     /\ call_transcript'[i].role = "assistant"
                     /\ call_transcript'[i].text = frame[c].text]_vars

\* a speak_and_listen of two sentences on an active session timed out
C19_Witness ==
    /\ pc[1] = "idle"
    /\ ret[1].raised /\ ret[1].err = "ListenTimeout"
    /\ active_call_id # None /\ call_active
    /\ call_transcript # <<>>
    /\ call_transcript[Len(call_transcript)] =
          Entry("assistant", <<"a", ".", "b">>, now)

\* C20: the chunks of one speak wait in the playback queue in the order of
\* the sentences of its text.
C20_ChunksInDocumentOrder ==
    \A id \in CallIds :
       \A i, j \in 1..Len(call[id].playback_queue) :
          (i < j /\ call[id].playback_queue[i].speak =
                       call[id].playback_queue[j].speak)
             => call[id].playback_queue[i].unit < call[id].playback_queue[j].unit

\* the events of the log with one of these roles, in order
Logged(roles) == SelectSeq(events, LAMBDA e : e.role \in roles)

Count(seq, x) == Cardinality({i \in 1..Len(seq) : seq[i] = x})

\* the text of the stream this run opened, and whether the stream has ended
StreamText == events[1].text

StreamOpened == events # <<>> /\ events[1].role = "stream"

StreamEnded(c) == StreamOpened /\ pc[c] = "idle"

\* C21: for a text of two or more units the stream never raises into its
\* consumer, makes a synthesis call for every unit before it ends, and
\* yields a chunk right after each call that produced audio and after no
\* other call: a failed unit yields nothing and stops nothing.
C21_FailedUnitSkipped ==
    \A c \in callers :
      (StreamOpened /\ Len(split_into_sentences(StreamText)) >= 2) =>
         /\ ~ret[c].raised
         /\ StreamEnded(c) =>
               /\ ret[c].ok
               /\ Len(Logged(SynthesisOutcomes)) =
                     Len(split_into_sentences(StreamText))
         /\ \A i \in 1..Len(events) :
              /\ events[i].role = "yielded" =>
                    events[i - 1] = Event("audio", events[i].text)
              /\ events[i].role = "audio" =>
                    /\ i < Len(events)
                    /\ events[i + 1] = Event("yielded", events[i].text)
              /\ events[i].role = "raise" =>
                    (i < Len(events) => events[i + 1].role # "yielded")

\* a stream of two units ended; the first call failed, the second one's
\* audio was yielded
C21_Witness ==
    /\ StreamEnded(1)
    /\ Len(split_into_sentences(StreamText)) = 2
    /\ Len(events) = 4
    /\ events[2].role = "raise"
    /\ events[3].role = "audio"
    /\ events[4] = Event("yielded", events[3].text)
    /\ ret[1].op = "synthesize_stream" /\ ret[1].ok

\* the chunks fed to the Segmenter and the buffers it handed to the
\* recognizer from process_audio_chunk, in order
Fed == [i \in 1..Len(Logged({"chunk"})) |-> Logged({"chunk"})[i].text]

Transcribed ==
    [i \in 1..Len(Logged({"transcribe"})) |-> Logged({"transcribe"})[i].text]

Ms(samples) == (samples * 1000) \div sample_rate

BufferMs(buf) == Ms(BufferBytes(buf) \div 2)

\* a started Segmenter was fed 300 ms of speech and then 900 ms of silence
\* in chunks of one size, and nothing else
BoundaryRun ==
    /\ Fed # <<>>
    /\ opsDone = 1 + Len(Fed)
    /\ events[1].role = "reset"
    /\ Len(Fed) * Ms(Fed[1].samples) = 1200
    /\ \A i \in 1..Len(Fed) :
         /\ Fed[i].samples = Fed[1].samples
         /\ Fed[i].loud <=> i * Ms(Fed[1].samples) <= 300

\* the recognizer call that handed over the i-th buffer returned: the
\* Segmenter cleared its buffer after it
FlushReturned(i) ==
    \E j \in 1..(Len(events) - 1) :
       /\ events[j].role = "transcribe"
       /\ Len(SelectSeq(SubSeq(events, 1, j),
                        LAMBDA e : e.role = "transcribe")) = i
       /\ events[j + 1].role = "reset"

SilenceAtFlush(ms) == ((DefaultSilenceMs + ms - 1) \div ms) * ms

RECURSIVE LoudMs(_)
LoudMs(buf) ==
    IF buf = <<>> THEN 0
    ELSE (IF Head(buf).loud THEN Ms(Head(buf).samples) ELSE 0)
         + LoudMs(Tail(buf))

\* C23: a buffer with less speech than the minimum speech duration is
\* never handed to the recognizer when the silence closes it.
C23_ShortSpeechDiscarded ==
    \A i \in 1..Len(Transcribed) :
       LoudMs(Transcribed[i]) > 0 => LoudMs(Transcribed[i]) >= MinSpeechMs

\* the pieces of text between the blanks at the positions in cuts
RECURSIVE Pieces(_, _, _)
Pieces(text, cuts, from) ==
    LET ahead == {i \in cuts : i >= from}
    IN  IF ahead = {} THEN <<SubSeq(text, from, Len(text))>>
        ELSE LET p == CHOOSE i \in ahead : \A j \in ahead : i <= j
             IN  <<SubSeq(text, from, p - 1)>> \o Pieces(text, cuts, p + 1)

\* the ways to read text as non-empty units separated by single blanks,
\* each unit but the last ending in a terminator
UnitsOf(text) ==
    {U \in {Pieces(text, cuts, 1) :
               cuts \in SUBSET {i \in 1..Len(text) : text[i] = Blank}} :
        /\ \A i \in 1..Len(U) : U[i] # <<>>
        /\ \A i \in 1..(Len(U) - 1) : U[i][Len(U[i])] \in Terminators}

RECURSIVE Join(_)
Join(ss) ==
    IF ss = <<>> THEN <<>>
    ELSE IF Len(ss) = 1 THEN ss[1]
    ELSE ss[1] \o <<Blank>> \o Join(Tail(ss))

ExampleUnits ==
    <<SubSeq(Example, 1, 12), SubSeq(Example, 14, 25), SubSeq(Example, 27, 30)>>

\* C24 as stated: the example splits into its three sentences, and every
\* text read as units separated by single blanks splits into exactly those
\* units, which joined by single blanks give the text back.
C24_SplitReturnsTheUnits ==
    \A c \in callers :
       pc[c] = "stream" =>
          /\ frame[c].text = Example => frame[c].sentences = ExampleUnits
          /\ \A U \in UnitsOf(frame[c].text) :
                /\ frame[c].sentences = U
                /\ Join(frame[c].sentences) = frame[c].text

\* a unit the splitter returns as it is: some text without a terminator,
\* then terminators only, and no blank at either end
Proper(u) ==
    LET body == TakeWhile(u, {u[i] : i \in 1..Len(u)} \ Terminators)
        rest == Drop(u, Len(body))
    IN  /\ body # <<>>
        /\ \A i \in 1..Len(rest) : rest[i] \in Terminators
        /\ u[1] # Blank
        /\ u[Len(u)] # Blank

\* C24 amended: the same, for units that hold terminators only at their end
\* and neither start nor end with a blank.
C24_SplitReturnsProperUnits ==
    \A c \in callers :
       pc[c] = "stream" =>
          /\ frame[c].text = Example => frame[c].sentences = ExampleUnits
          /\ \A U \in UnitsOf(frame[c].text) :
                (\A i \in 1..Len(U) : Proper(U[i])) =>
                   /\ frame[c].sentences = U
                   /\ Join(frame[c].sentences) = frame[c].text

C24_Witness ==
    /\ pc[1] = "stream"
    /\ frame[1].text = Example
    /\ frame[1].sentences = ExampleUnits
    /\ ExampleUnits \in UnitsOf(Example)
    /\ \A i \in 1..3 : Proper(ExampleUnits[i])

\* every buffer handed to the recognizer, by process_audio_chunk or by
\* get_final_transcription
Handed ==
    [i \in 1..Len(Logged({"transcribe", "final_transcribe"})) |->
        Logged({"transcribe", "final_transcribe"})[i].text]

\* C25: silence that arrives before any speech is not buffered, and no
\* buffer without a chunk of speech reaches the recognizer.
C25_SilenceWhileIdleIgnored ==
    /\ audio_buffer # <<>> => audio_buffer[1].loud
    /\ \A i \in 1..Len(Handed) : \E k \in 1..Len(Handed[i]) : Handed[i][k].loud

\* a step of the Segmenter that called the recognizer
RecognizerCalled ==
    Len(Logged({"transcribe", "final_transcribe"})') >
       Len(Logged({"transcribe", "final_transcribe"}))

\* C26: every step that calls the recognizer, whatever the recognizer
\* does, leaves the buffer empty and the silence count zero.
C26_ResetAfterEveryFlush ==
    [][RecognizerCalled => (audio_buffer' = <<>> /\ silence_samples' = 0)]_vars

\* a step that fed the Segmenter a chunk of no bytes
EmptyChunkFed ==
    /\ Len(events') > Len(events)
    /\ events'[Len(events) + 1].role = "chunk"
    /\ events'[Len(events) + 1].text.samples = 0

\* C27: a chunk of no bytes returns no utterance, raises nothing and
\* leaves the Segmenter's state as it was.
C27_EmptyChunkIgnored ==
    [][EmptyChunkFed =>
          /\ \A c \in callers : ~ret'[c].raised /\ ret'[c].text = NoText
          /\ UNCHANGED sttVars]_vars

\* C28: no user entry of the transcript and no text signalled to listen is
\* empty or made of whitespace only, the entry of end's final flush
\* included.
C28_BlankRecognitionSuppressed ==
    /\ \A i \in 1..Len(call_transcript) :
          call_transcript[i].role = "user" =>
             Strip(call_transcript[i].text) # <<>>
    /\ pending_transcription # NoText => Strip(pending_transcription) # <<>>

\* the last clearing of the buffer before event i of the log
LastReset(i) ==
    CHOOSE j \in 1..(i - 1) :
       /\ events[j].role = "reset"
       /\ \A k \in (j + 1)..(i - 1) : events[k].role # "reset"

\* the chunks that brought bytes, fed between events j and i of the log
FedBetween(j, i) ==
    LET part == SelectSeq(SubSeq(events, j + 1, i - 1),
                          LAMBDA e : e.role = "chunk" /\ e.text.samples > 0)
    IN  [k \in 1..Len(part) |-> part[k].text]

\* C29: every buffer handed to the recognizer is the sequence of the chunks
\* fed since the buffer was last cleared, the chunk that completed the
\* silence included.
C29_BufferIsChunksSinceReset ==
    \A i \in 1..Len(events) :
       events[i].role \in {"transcribe", "final_transcribe"} =>
          /\ events[i].text = FedBetween(LastReset(i), i)
          /\ events[i].role = "transcribe" =>
                /\ events[i - 1].role = "chunk"
                /\ events[i].text[Len(events[i].text)] = events[i - 1].text

\* after a chunk and a second start_stream, the silence duration was
\* reached and the buffer handed over holds the later chunks only
C29_Witness ==
    \E i \in 1..Len(events) :
       /\ events[i].role = "transcribe"
       /\ LastReset(i) > 2
       /\ events[2].role = "chunk"
       /\ Len(events[i].text) >= 3
       /\ events[i].text = FedBetween(LastReset(i), i)

\* the synthesis calls the stream has made, and the calls C30 expects
Calls == [i \in 1..Len(Logged(SynthesisOutcomes)) |->
             Logged(SynthesisOutcomes)[i].text]

ExpectedCalls ==
    IF Len(split_into_sentences(StreamText)) <= 1 THEN <<StreamText>>
    ELSE split_into_sentences(StreamText)

\* C30: the stream never makes a call it should not make, and when it ends
\* it has made one call with the whole text if the text has at most one
\* unit, and else one call with each unit's text.
C30_OneCallPerUnit ==
    StreamOpened =>
       /\ \A i \in 1..Len(Calls) :
             Count(Calls, Calls[i]) <= Count(ExpectedCalls, Calls[i])
       /\ \A c \in callers :
             StreamEnded(c) =>
                \A i \in 1..Len(ExpectedCalls) :
                   Count(Calls, ExpectedCalls[i]) =
                      Count(ExpectedCalls, ExpectedCalls[i])

\* a text of terminators and blanks only was synthesized whole, in one call
C30_Witness ==
    /\ StreamEnded(1)
    /\ StreamText # <<>>
    /\ split_into_sentences(StreamText) = <<>>
    /\ Calls = <<StreamText>>
    /\ ret[1].ok

\* the end of session k returned its summary to caller c
EndedSession(c, k) ==
    /\ pc[c] = "idle"
    /\ ret[c].op = "end" /\ ret[c].ok /\ ret[c].id = k

\* C31: once the end of a session has returned successfully, the ingestion
\* task that the session's initiate created (if it created one) eventually
\* terminates.
C31_LoopEndsAfterEnd ==
    \A k \in 1..MaxCalls :
       (\E c \in {1} : EndedSession(c, k)) ~> (task[k].pc \in {"none", "done"})

\* the playback worker of call id takes an item off its queue in this step
WorkerTakes(id) ==
    /\ worker[id].pc = "idle"
    /\ worker'[id] # worker[id]
    /\ call'[id].playback_queue # call[id].playback_queue

\* C32: the playback worker takes the items of its queue oldest first; a
\* chunk taken is written (or its write fails) and the worker goes on to the
\* next item, only the sentinel or the closed call stop it; and a hang_up
\* that waits in the join of the playback thread eventually returns.
C32_PlaybackInOrderAndJoinReturns ==
    /\ [][\A id \in CallIds :
            /\ WorkerTakes(id) =>
                 /\ call'[id].playback_queue = Tail(call[id].playback_queue)
                 /\ LET item == Head(call[id].playback_queue)
                    IN  worker'[id] = IF item = Sentinel
                                      THEN [pc |-> "ended", chunk |-> <<>>]
                                      ELSE [pc |-> "writing", chunk |-> item]
            /\ (worker[id].pc = "writing" /\ worker'[id] # worker[id]) =>
                 worker'[id] = [pc |-> "idle", chunk |-> <<>>]
            /\ (worker[id].pc = "idle" /\ worker'[id].pc = "ended") =>
                 \/ ~call[id].active
                 \/ Head(call[id].playback_queue) = Sentinel]_vars
    /\ \A c \in {1} : (pc[c] = "end_join") ~> (pc[c] = "idle" /\ ret[c].op = "end")

\* hang_up waits in the join while the worker writes a chunk and another
\* chunk and the sentinel are queued behind it
C32_Witness ==
    \E id \in CallIds :
       /\ pc[1] = "end_join" /\ frame[1].cid = id
       /\ worker[id].pc = "writing"
       /\ Len(call[id].playback_queue) >= 2
       /\ call[id].playback_queue[1] # Sentinel
       /\ call[id].playback_queue[Len(call[id].playback_queue)] = Sentinel

\* caller c's initiate returns success in this step
InitiateSucceeds(c) ==
    /\ pc[c] = "init_start"
    /\ pc'[c] = "idle"
    /\ ret'[c].op = "initiate" /\ ret'[c].ok

\* C33: with initiates only, issued by two requests at a time: at most one
\* initiate is ever between its check and its result, at most one returns
\* success (none after an ingestion task exists), at most one audio session
\* is open and at most one ingestion task is created.
C33_OneInitiateWins ==
    /\ [](/\ Cardinality({c \in callers : pc[c] = "init_start"}) <= 1
          /\ Cardinality({i \in calls : call[i].active}) <= 1
          /\ Cardinality({i \in CallIds : call[i].stream}) <= 1
          /\ Cardinality({k \in CallIds : task[k].pc # "none"}) <= 1
          /\ \A c \in callers : pc[c] = "init_start" =>
                /\ active_call_id = frame[c].cid
                /\ \A k \in CallIds : task[k].pc = "none")
    /\ [][\A c \in callers : InitiateSucceeds(c) =>
            /\ \A k \in CallIds : task[k].pc = "none"
            /\ \A d \in callers \ {c} : ~InitiateSucceeds(d)
            /\ task'[ret'[c].id].pc # "none"]_vars

\* request 2's initiate was rejected while request 1's initiate, which
\* passed the check, is still starting the segmenter
C33_Witness ==
    /\ pc[1] = "init_start"
    /\ pc[2] = "idle"
    /\ ret[2].op = "initiate" /\ ret[2].err = "AlreadyActive"
    /\ ret[2].id = frame[1].cid

\* the ingestion task created by session k appends a user entry in this step
TaskAppends(k) ==
    /\ task[k].pc = "proc"
    /\ task'[k].pc # "proc"
    /\ Len(call_transcript') = Len(call_transcript) + 1

\* C34: an ingestion task appends to the transcript and signals listen only
\* while the session that created it is the current one, and at most one
\* ingestion task is in its loop at any time.
C34_EntriesOfOwnSession ==
    /\ [][\A k \in CallIds : TaskAppends(k) => active_call_id = k]_vars
    /\ [](Cardinality({k \in CallIds : task[k].pc \in {"iter", "proc"}}) <= 1)

\* C35: while any speak of the session is still synthesizing or enqueueing,
\* capture is paused.
C35_PausedUntilLastSpeakEnds ==
    \A c \in callers :
       (pc[c] = "speak_synth" /\ active_call_id \in calls) =>
          ~call[active_call_id].recording

\* caller c's listen returns a text in this step
ListenReturns(c) ==
    /\ pc[c] = "listen_wait"
    /\ pc'[c] = "idle"
    /\ ret'[c].op = "listen" /\ ret'[c].ok

\* C36: a listen that returns without a timeout returns the non-empty text
\* of an utterance recognized (and appended as a user entry) during that
\* listen, and no two listens have returned the same utterance.
C36_ListenReturnsOneUtterance ==
    /\ [][\A c \in callers : ListenReturns(c) =>
            /\ ret'[c].text # NoText
            /\ \E n \in (frame[c].heard + 1)..recognized :
                  ret'[c].text = Utterance(n)]_vars
    /\ [](\A c, d \in callers :
            (/\ c # d
             /\ ret[c].op = "listen" /\ ret[c].ok /\ ret[c].text # NoText
             /\ ret[d].op = "listen" /\ ret[d].ok) => ret[c].text # ret[d].text)

\* caller c's initiate returns a failure other than AlreadyActive in this step
InitiateFails(c) ==
    /\ \/ pc[c] = "idle" /\ opsDone' = opsDone + 1
       \/ pc[c] = "init_start"
    /\ pc'[c] = "idle"
    /\ ret'[c].op = "initiate" /\ ~ret'[c].ok
    /\ ret'[c].err # "AlreadyActive"

\* C37: when an initiate fails (in make_call or in start_stream), it leaves
\* no session id, the session inactive, no capture stream open, no playback
\* thread running and no ingestion task created.
C37_FailedInitiateLeavesNothing ==
    [][\A c \in callers : InitiateFails(c) =>
         /\ active_call_id' = None
         /\ ~call_active'
         /\ \A i \in CallIds : ~call'[i].stream
         /\ \A i \in CallIds : worker'[i].pc \notin {"idle", "writing"}
         /\ task' = task]_vars

\* C38: whenever no operation is in progress, the session is active exactly
\* when a session id is set, and every get_transcript result reports
\* active = true exactly when it reports a session id.
C38_ActiveIffSessionId ==
    /\ (\A c \in callers : pc[c] = "idle") =>
          (call_active <=> active_call_id # None)
    /\ \A c \in callers :
          (pc[c] = "idle" /\ ret[c].op = "get_transcript") =>
             (ret[c].active <=> ret[c].id # None)

\* the speak phase of caller c's speak_and_listen ends in this step with a
\* failure: the single synthesis call for its text enqueued nothing
TurnSpeakFails(c) ==
    /\ pc[c] = "speak_synth"
    /\ pc'[c] # "speak_synth"
    /\ frame[c].after = "listen"
    /\ frame[c].todo = {0}
    /\ active_call_id \in calls
    /\ call'[active_call_id].playback_queue = call[active_call_id].playback_queue

\* C39: when the speak phase of speak_and_listen fails, speak_and_listen
\* does not go on to wait in listen.
C39_FailedSpeakNotListenedAfter ==
    [][\A c \in callers : TurnSpeakFails(c) => pc'[c] # "listen_wait"]_vars

\* the tools that speak a message and wait for the answer
TurnTools == {"initiate_call", "continue_call", "report_completion"}

\* C40: when one of the tools initiate_call, continue_call and
\* report_completion has returned the listen-timeout failure, the session is
\* still active under the id the result names and its transcript still holds
\* the message the tool spoke.
C40_TimeoutKeepsSession ==
    \A c \in callers :
       (/\ pc[c] = "idle"
        /\ ret[c].op \in TurnTools
        /\ ret[c].err = "ListenTimeout") =>
          /\ active_call_id # None
          /\ active_call_id = ret[c].id
          /\ call_active
          /\ \E i \in 1..Len(call_transcript) :
                call_transcript[i].role = "assistant"

====
